------------------------ MODULE RunLifecycleProofs ------------------------
(***************************************************************************)
(* Proofs about RunLifecycle for any number of runs, inputs and readers:   *)
(* who holds the handle lock and the session handle, what a cancel that    *)
(* returned has achieved, and that the inbox offers each input once.       *)
(***************************************************************************)
EXTENDS RunLifecycle, FiniteSetTheorems, FunctionTheorems, TLAPS

(* The type invariant, but for the inbox and the steers taken from it.     *)
Typed ==
  /\ lock \in Runs \cup Inputs \cup Readers \cup {None}
  /\ active \in Runs \cup {None}
  /\ handle \in Runs \cup Readers \cup {None} /\ gone \in BOOLEAN
  /\ at \in [Inputs -> Places]
  /\ rpc \in [Runs -> RunLabels]
  /\ requested \in [Runs -> BOOLEAN]
  /\ state \in [Runs -> {"none", "live", "cancelled"}]
  /\ cpc \in [Runs -> {"none", "flagged", "returned"}]
  /\ reader \in [Readers -> {"idle", "borrowing", "opening", "reading", "deleting",
                             "releasing"}]

(* Whoever stands where the code holds session_lock() holds it.            *)
LockInv ==
  /\ \A i \in Inputs : at[i] = "opening" => lock = i
  /\ \A w \in Readers : reader[w] # "idle" => lock = w
  /\ \A r \in Runs : rpc[r] = "detached" => lock = r

(* Whose the open handle is: of the run in the slot, of a run that has     *)
(* just left it and still holds the lock, or of the reader with the lock.  *)
HandleInv ==
  /\ \A w \in Readers : reader[w] \in {"reading", "releasing"} <=> handle = w
  /\ \A r \in Runs : handle = r => active = r \/ rpc[r] = "detached"

InLoop == {"prompting", "top", "calling", "tools", "gate", "halt"}

(* The two sides of the cancel handshake: the flag is set before cancel()  *)
(* looks for the state, and the run publishes its state before it looks at *)
(* the flag.                                                               *)
CancelInv ==
  \A r \in Runs :
    /\ cpc[r] # "none" => requested[r]
    /\ rpc[r] \in InLoop \cup {"assembled"} => state[r] # "none"
    /\ cpc[r] = "returned" /\ rpc[r] \in InLoop => state[r] = "cancelled"

IInv ==
  /\ Typed /\ LockInv /\ HandleInv
  /\ NeverAlreadyOpen /\ WritesHaveHandle /\ CancelInv
----------------------------------------------------------------------------
(* Threads, runs and None are told apart.                                  *)
LEMMA Apart ==
  /\ \A i \in Inputs : i # None /\ i \notin Runs /\ i \notin Readers
  /\ \A r \in Runs : r # None /\ r \notin Inputs /\ r \notin Readers
  /\ \A w \in Readers : w # None /\ w \notin Inputs /\ w \notin Runs
BY NoneAssumption, DistinctAssumption

(* While the lock is free and no run is in the slot, nobody has the        *)
(* session open.                                                           *)
LEMMA FreeMeansClosed ==
  ASSUME IInv, Free, active = None
  PROVE  handle = None
<1>1. ASSUME NEW r \in Runs PROVE handle # r
  BY Apart DEF IInv, Free, LockInv, HandleInv
<1>2. ASSUME NEW w \in Readers PROVE handle # w
  BY Apart DEF IInv, Free, LockInv, HandleInv
<1> QED BY <1>1, <1>2 DEF IInv, Typed

(* A session at rest has no handle, no run and a free slot.                *)
LEMMA InitInv == Init => IInv
<1> SUFFICES ASSUME Init PROVE IInv
  OBVIOUS
<1>1. Typed
  BY DEF Init, Typed, Places, RunLabels
<1>2. LockInv /\ HandleInv /\ NeverAlreadyOpen /\ WritesHaveHandle
  BY Apart DEF Init, LockInv, HandleInv, NeverAlreadyOpen, WritesHaveHandle
<1>3. CancelInv
  BY DEF Init, CancelInv, InLoop
<1> QED BY <1>1, <1>2, <1>3 DEF IInv

----------------------------------------------------------------------------
(* Steps of the threads of the inputs.                                     *)

(* What such a step leaves alone when it neither takes the lock nor starts *)
(* or ends a run.                                                          *)
QueueStep ==
  /\ UNCHANGED <<lock, active, handle, gone, rpc, requested, state, cpc, reader>>
  /\ at' \in [Inputs -> Places]
  /\ \A i \in Inputs : at'[i] = "opening" => at[i] = "opening"

(* What submit_input(), start_queued() and the sweep do short of a start   *)
(* touches only inputs and inbox.                                          *)
LEMMA QueueSteps ==
  ASSUME IInv, NEW i \in Inputs,
         \/ \E m \in {"now", "after", "direct"} : Submit(i, m)
         \/ Decide(i) \/ Add(i) \/ Find(i) \/ Busy(i) \/ Claim(i) \/ LookUpAgain(i)
         \/ Restore(i) \/ Drop(i) \/ SweepInbox
  PROVE  QueueStep
<1>1. UNCHANGED <<lock, active, handle, gone, rpc, requested, state, cpc, reader>>
  BY DEF Submit, Decide, Add, Find, Busy, Claim, LookUpAgain, Restore, Drop, SweepInbox,
         slotVars, runVars, readVars
<1>2. at \in [Inputs -> Places]
  BY DEF IInv, Typed
<1> DEFINE Moved == at'[i] \in Places \ {"opening"} /\ at' = [at EXCEPT ![i] = at'[i]]
<1>3. ASSUME NEW m \in {"now", "after", "direct"}, Submit(i, m) PROVE Moved
  BY <1>2, <1>3 DEF Submit, Move, Places
<1>4. CASE Decide(i)
  <2>1. Moved
    BY <1>2, <1>4 DEF Decide, Move, Places
  <2> QED BY <1>1, <1>2, <2>1 DEF QueueStep
<1>5. CASE Add(i) \/ Restore(i)
  <2>1. Moved
    BY <1>2, <1>5 DEF Add, Restore, Move, Places
  <2> QED BY <1>1, <1>2, <2>1 DEF QueueStep
<1>6. CASE Claim(i) \/ LookUpAgain(i) \/ Drop(i)
  <2>1. Moved
    BY <1>2, <1>6 DEF Claim, LookUpAgain, Drop, Move, Places
  <2> QED BY <1>1, <1>2, <2>1 DEF QueueStep
<1>7. CASE Find(i) \/ Busy(i)
  <2>1. Moved
    BY <1>2, <1>7 DEF Find, Busy, Raised, Move, Places
  <2> QED BY <1>1, <1>2, <2>1 DEF QueueStep
<1>8. CASE SweepInbox
  BY <1>1, <1>2, <1>8 DEF SweepInbox, QueueStep
<1> QED BY <1>1, <1>2, <1>3, <1>4, <1>5, <1>6, <1>7, <1>8 DEF QueueStep

(* Nothing the invariant speaks of changes with the inbox.                 *)
LEMMA QueueInv ==
  ASSUME IInv, QueueStep
  PROVE  IInv'
<1>1. Typed'
  BY DEF IInv, QueueStep, Typed
<1>2. LockInv' /\ HandleInv' /\ NeverAlreadyOpen' /\ WritesHaveHandle' /\ CancelInv'
  BY DEF IInv, QueueStep, LockInv, HandleInv, NeverAlreadyOpen, WritesHaveHandle, CancelInv
<1> QED BY <1>1, <1>2 DEF IInv

(* start(): the slot and the lock are taken together.                      *)
LEMMA ReserveStep ==
  ASSUME IInv, NEW i \in Inputs, Reserve(i)
  PROVE  IInv'
<1>1. /\ UNCHANGED <<handle, gone, requested, state, cpc, reader>>
      /\ lock = None /\ active = None /\ lock' = i /\ active' = NewRun
      /\ rpc' = [rpc EXCEPT ![NewRun] = "reserved"] /\ at' = [at EXCEPT ![i] = "opening"]
  BY DEF Reserve, Free, Goto, Move, readVars
<1>2. NewRun \in Runs /\ rpc[NewRun] = "unused"
  BY DEF Reserve, NewRun
<1>3. Typed /\ rpc \in [Runs -> RunLabels] /\ at \in [Inputs -> Places]
  BY DEF IInv, Typed
<1>4. handle = None
  BY <1>1, FreeMeansClosed DEF Free
<1> HIDE DEF NewRun
<1>5. Typed'
  <2>1. rpc' \in [Runs -> RunLabels] /\ at' \in [Inputs -> Places]
    BY <1>1, <1>2, <1>3 DEF RunLabels, Places
  <2> QED BY <1>1, <1>2, <1>3, <2>1 DEF Typed
<1>6. /\ \A w \in Readers : reader[w] = "idle"
      /\ \A j \in Inputs : at[j] # "opening"
      /\ \A r \in Runs : rpc[r] # "detached"
  BY <1>1, Apart DEF IInv, LockInv
<1>7. LockInv' /\ NeverAlreadyOpen'
  BY <1>1, <1>2, <1>3, <1>4, <1>6 DEF LockInv, NeverAlreadyOpen
<1>8. HandleInv'
  BY <1>1, <1>4, <1>6, Apart DEF HandleInv
<1>9. WritesHaveHandle'
  BY <1>1, <1>2, <1>3 DEF IInv, WritesHaveHandle
<1>10. CancelInv'
  BY <1>1, <1>2, <1>3 DEF IInv, CancelInv, InLoop
<1> QED BY <1>5, <1>7, <1>8, <1>9, <1>10 DEF IInv

(* The handle is opened, or the slot is given back.                        *)
LEMMA OpenSteps ==
  ASSUME IInv, NEW i \in Inputs, OpenOk(i) \/ OpenFail(i)
  PROVE  IInv'
<1>1. /\ UNCHANGED <<gone, requested, state, cpc, reader>>
      /\ at[i] = "opening" /\ lock' = None
      /\ \E l \in Places \ {"opening"} : at' = [at EXCEPT ![i] = l]
  BY DEF OpenOk, OpenFail, Move, Raised, readVars, Places
<1>2. Typed /\ rpc \in [Runs -> RunLabels] /\ at \in [Inputs -> Places]
  BY DEF IInv, Typed
<1>3. /\ lock = i /\ handle = None
      /\ \A w \in Readers : reader[w] = "idle"
      /\ \A j \in Inputs : at'[j] # "opening"
      /\ \A r \in Runs : rpc[r] # "detached"
  <2>1. lock = i /\ handle = None
    BY <1>1 DEF IInv, LockInv, NeverAlreadyOpen
  <2>2. \A j \in Inputs : at[j] = "opening" => j = i
    BY <2>1 DEF IInv, LockInv
  <2>3. at'[i] # "opening" /\ \A j \in Inputs : at'[j] = "opening" => at[j] = "opening" \/ j = i
    BY <1>1, <1>2
  <2>4. \A w \in Readers : reader[w] = "idle"
    BY <2>1, Apart DEF IInv, LockInv
  <2>5. \A r \in Runs : rpc[r] # "detached"
    BY <2>1, Apart DEF IInv, LockInv
  <2> QED BY <2>1, <2>2, <2>3, <2>4, <2>5
<1>4. at' \in [Inputs -> Places]
  BY <1>1, <1>2
<1>5. CASE OpenOk(i)
  <2>1. /\ handle' = active /\ active' = active /\ ~gone
        /\ rpc' = [rpc EXCEPT ![active] = "boot"]
    BY <1>5 DEF OpenOk, Goto
  <2>2. Typed'
    <3>1. rpc' \in [Runs -> RunLabels]
      BY <1>2, <2>1 DEF RunLabels
    <3> QED BY <1>1, <1>2, <1>4, <2>1, <3>1 DEF Typed
  <2>3. LockInv' /\ NeverAlreadyOpen'
    BY <1>1, <1>2, <1>3, <2>1 DEF LockInv, NeverAlreadyOpen
  <2>4. HandleInv'
    BY <1>1, <1>2, <1>3, <2>1, Apart DEF HandleInv, Typed
  <2>5. WritesHaveHandle'
    BY <1>1, <1>2, <1>3, <2>1, Apart DEF IInv, WritesHaveHandle
  <2>6. CancelInv'
    BY <1>1, <1>2, <2>1 DEF IInv, CancelInv, InLoop
  <2> QED BY <2>2, <2>3, <2>4, <2>5, <2>6 DEF IInv
<1>6. CASE OpenFail(i)
  <2>1. handle' = handle /\ active' = None /\ rpc' = [rpc EXCEPT ![active] = "void"]
    BY <1>6 DEF OpenFail, Goto
  <2>2. Typed'
    <3>1. rpc' \in [Runs -> RunLabels]
      BY <1>2, <2>1 DEF RunLabels
    <3> QED BY <1>1, <1>2, <1>4, <2>1, <3>1 DEF Typed
  <2>3. LockInv' /\ NeverAlreadyOpen'
    BY <1>1, <1>2, <1>3, <2>1 DEF LockInv, NeverAlreadyOpen
  <2>4. HandleInv'
    BY <1>1, <1>3, <2>1, Apart DEF HandleInv
  <2>5. WritesHaveHandle'
    BY <1>1, <1>2, <1>3, <2>1, Apart DEF IInv, WritesHaveHandle
  <2>6. CancelInv'
    BY <1>1, <1>2, <2>1 DEF IInv, CancelInv, InLoop
  <2> QED BY <2>2, <2>3, <2>4, <2>5, <2>6 DEF IInv
<1> QED BY <1>5, <1>6
----------------------------------------------------------------------------
(* Steps of a run thread between the opening of its handle and its end.    *)

Inside == {"boot", "assembled", "prompting", "top", "calling", "tools", "gate", "halt",
           "ending", "downgraded", "terminal"}

InsideStep(r) ==
  /\ UNCHANGED <<lock, active, handle, gone, requested, cpc, reader>>
  /\ at' \in [Inputs -> Places]
  /\ \A i \in Inputs : at'[i] = "opening" => at[i] = "opening"
  /\ rpc[r] \in Inside /\ rpc'[r] \in Inside
  /\ rpc' = [rpc EXCEPT ![r] = rpc'[r]]
  /\ state' = [state EXCEPT ![r] = state'[r]]
  /\ state'[r] \in {"none", "live", "cancelled"}
  /\ rpc'[r] \in InLoop \cup {"assembled"} => state'[r] # "none"
  /\ cpc[r] = "returned" /\ rpc'[r] \in InLoop => state'[r] = "cancelled"

(* Moving a set of inputs on, as the delivery and the gates do.            *)
LEMMA MoveAllPlaces ==
  ASSUME Typed, NEW S, NEW T, NEW l \in Places \ {"opening"}, NEW k \in Places \ {"opening"},
         MoveAll(S, l, T, k)
  PROVE  /\ at' \in [Inputs -> Places]
         /\ \A i \in Inputs : at'[i] = "opening" => at[i] = "opening"
BY DEF Typed, MoveAll

(* From the opened handle to the announced end, a run stays inside and     *)
(* leaves lock, slot and handle alone.                                     *)
LEMMA InsideSteps ==
  ASSUME IInv, NEW r \in Runs,
         \/ EndEarly(r) \/ Assemble(r) \/ ReplayCancel(r) \/ RecordPrompt(r)
         \/ TopCancelled(r) \/ \E n \in 0..Cardinality(Inputs) : Deliver(r, n)
         \/ CallModel(r) \/ RunTools(r) \/ GateSteers(r) \/ GateEnd(r)
         \/ Downgrade(r) \/ Announce(r)
  PROVE  InsideStep(r)
<1>1. /\ Typed /\ rpc \in [Runs -> RunLabels] /\ at \in [Inputs -> Places]
      /\ state \in [Runs -> {"none", "live", "cancelled"}]
  BY DEF IInv, Typed
<1>2. /\ cpc[r] # "none" => requested[r]
      /\ rpc[r] \in InLoop \cup {"assembled"} => state[r] # "none"
      /\ cpc[r] = "returned" /\ rpc[r] \in InLoop => state[r] = "cancelled"
  BY DEF IInv, CancelInv
<1>3. /\ "taken" \in Places \ {"opening"} /\ "lost" \in Places \ {"opening"}
      /\ "recorded" \in Places \ {"opening"} /\ "unsaved" \in Places \ {"opening"}
  BY DEF Places
<1>4. UNCHANGED <<lock, active, handle, gone, requested, cpc, reader>>
  BY DEF EndEarly, Assemble, ReplayCancel, RecordPrompt, TopCancelled, Deliver, CallModel,
         RunTools, GateSteers, GateEnd, Downgrade, Announce, slotVars, readVars
<1> DEFINE Same == state' = state
           Kept == at' = at
<1>5. CASE EndEarly(r) \/ RecordPrompt(r)
  <2>1. Same /\ \E l \in {"unsaved", "recorded"} : at' = [at EXCEPT ![prompt[r]] = l]
    BY <1>5 DEF EndEarly, RecordPrompt, Move
  <2>2. /\ at' \in [Inputs -> Places]
        /\ \A i \in Inputs : at'[i] = "opening" => at[i] = "opening"
    <3>1. PICK l \in {"unsaved", "recorded"} : at' = [at EXCEPT ![prompt[r]] = l]
      BY <2>1
    <3>2. l \in Places /\ l # "opening"
      BY <1>3
    <3> QED BY <1>1, <3>1, <3>2
  <2>3. /\ rpc[r] \in {"boot", "prompting"} /\ rpc'[r] \in {"ending", "top"}
        /\ rpc' = [rpc EXCEPT ![r] = rpc'[r]]
        /\ rpc'[r] = "top" => rpc[r] = "prompting"
    BY <1>1, <1>5 DEF EndEarly, RecordPrompt, Goto
  <2> QED BY <1>1, <1>2, <1>4, <2>1, <2>2, <2>3 DEF InsideStep, Inside, InLoop
<1>6. CASE Assemble(r) \/ ReplayCancel(r)
  <2>1. Kept
    BY <1>6 DEF Assemble, ReplayCancel, inputVars
  <2>2. CASE Assemble(r)
    BY <1>1, <1>4, <2>1, <2>2 DEF Assemble, Goto, InsideStep, Inside, InLoop
  <2>3. CASE ReplayCancel(r)
    <3>1. /\ rpc[r] = "assembled" /\ rpc'[r] = "prompting"
          /\ rpc' = [rpc EXCEPT ![r] = rpc'[r]]
          /\ state' = [state EXCEPT ![r] = state'[r]]
          /\ state'[r] = IF requested[r] THEN "cancelled" ELSE state[r]
      BY <1>1, <2>3 DEF ReplayCancel, Goto
    <3>2. state[r] \in {"live", "cancelled"}
      BY <1>1, <1>2, <3>1 DEF InLoop
    <3>3. cpc[r] = "returned" => state'[r] = "cancelled"
      BY <1>2, <3>1
    <3> QED BY <1>1, <1>4, <2>1, <3>1, <3>2, <3>3 DEF InsideStep, Inside, InLoop
  <2> QED BY <1>6, <2>2, <2>3
<1>7. CASE TopCancelled(r)
  <2>1. /\ at' \in [Inputs -> Places]
        /\ \A i \in Inputs : at'[i] = "opening" => at[i] = "opening"
    BY <1>1, <1>3, <1>7, MoveAllPlaces DEF TopCancelled
  <2> QED BY <1>1, <1>4, <1>7, <2>1 DEF TopCancelled, Goto, InsideStep, Inside, InLoop
<1>8. ASSUME NEW n \in 0..Cardinality(Inputs), Deliver(r, n) PROVE InsideStep(r)
  <2> DEFINE all == pending[r] \o Steers
             S == {all[k] : k \in 1..n}
             T == {all[k] : k \in (n + 1)..Len(all)}
  <2>1. /\ MoveAll(S, "recorded", T, "unsaved") /\ Same
        /\ rpc[r] = "top"
        /\ rpc' = [rpc EXCEPT ![r] = IF n = Len(all) THEN "calling" ELSE "ending"]
    BY <1>8 DEF Deliver, Goto
  <2> HIDE DEF S, T, all
  <2>2. /\ at' \in [Inputs -> Places]
        /\ \A i \in Inputs : at'[i] = "opening" => at[i] = "opening"
    BY <1>1, <1>3, <2>1, MoveAllPlaces
  <2>3. rpc'[r] \in {"calling", "ending"} /\ rpc' = [rpc EXCEPT ![r] = rpc'[r]]
    BY <1>1, <2>1
  <2> QED BY <1>1, <1>2, <1>4, <2>1, <2>2, <2>3 DEF InsideStep, Inside, InLoop
<1>9. CASE GateSteers(r)
  <2> DEFINE S == Range(Steers)
  <2>1. MoveAll(S, "taken", {}, "taken") /\ Same /\ rpc[r] \in {"gate", "halt"}
        /\ rpc' = [rpc EXCEPT ![r] = "top"]
    BY <1>9 DEF GateSteers, Goto
  <2> HIDE DEF S
  <2>2. /\ at' \in [Inputs -> Places]
        /\ \A i \in Inputs : at'[i] = "opening" => at[i] = "opening"
    BY <1>1, <1>3, <2>1, MoveAllPlaces
  <2>3. rpc'[r] = "top" /\ rpc' = [rpc EXCEPT ![r] = rpc'[r]]
    BY <1>1, <2>1
  <2> QED BY <1>1, <1>2, <1>4, <2>1, <2>2, <2>3 DEF InsideStep, Inside, InLoop
<1>10. CASE CallModel(r) \/ RunTools(r) \/ GateEnd(r)
  <2>1. Kept /\ Same
    BY <1>10 DEF CallModel, RunTools, GateEnd, inputVars
  <2>2. /\ rpc[r] \in InLoop \ {"prompting"} /\ rpc' = [rpc EXCEPT ![r] = rpc'[r]]
        /\ rpc'[r] \in {"tools", "gate", "ending", "top", "halt"}
    <3>1. CASE CallModel(r)
      BY <1>1, <3>1 DEF CallModel, Goto, InLoop
    <3>2. CASE RunTools(r)
      BY <1>1, <3>2 DEF RunTools, Goto, InLoop
    <3>3. CASE GateEnd(r)
      BY <1>1, <3>3 DEF GateEnd, Goto, InLoop
    <3> QED BY <1>10, <3>1, <3>2, <3>3
  <2> QED BY <1>1, <1>2, <1>4, <2>1, <2>2 DEF InsideStep, Inside, InLoop
<1>11. CASE Downgrade(r) \/ Announce(r)
  <2>1. Kept /\ Same
    BY <1>11 DEF Downgrade, Announce, inputVars
  <2>2. /\ rpc[r] \in {"ending", "downgraded"} /\ rpc'[r] \in {"downgraded", "terminal"}
        /\ rpc' = [rpc EXCEPT ![r] = rpc'[r]]
    BY <1>1, <1>11 DEF Downgrade, Announce, Goto
  <2> QED BY <1>1, <1>4, <2>1, <2>2 DEF InsideStep, Inside, InLoop
<1> QED BY <1>5, <1>6, <1>7, <1>8, <1>9, <1>10, <1>11

(* A step inside the run keeps the invariant, the cancel flag included.    *)
LEMMA InsideInv ==
  ASSUME IInv, NEW r \in Runs, InsideStep(r)
  PROVE  IInv'
<1>1. /\ UNCHANGED <<lock, active, handle, gone, requested, cpc, reader>>
      /\ at' \in [Inputs -> Places]
      /\ \A i \in Inputs : at'[i] = "opening" => at[i] = "opening"
      /\ rpc[r] \in Inside /\ rpc'[r] \in Inside
      /\ rpc' = [rpc EXCEPT ![r] = rpc'[r]]
      /\ state' = [state EXCEPT ![r] = state'[r]]
      /\ state'[r] \in {"none", "live", "cancelled"}
      /\ rpc'[r] \in InLoop \cup {"assembled"} => state'[r] # "none"
      /\ cpc[r] = "returned" /\ rpc'[r] \in InLoop => state'[r] = "cancelled"
  BY DEF InsideStep
<1>2. /\ Typed /\ rpc \in [Runs -> RunLabels]
      /\ state \in [Runs -> {"none", "live", "cancelled"}]
  BY DEF IInv, Typed
<1>3. Typed'
  <2>1. rpc'[r] \in RunLabels
    BY <1>1 DEF Inside, RunLabels
  <2>2. rpc' \in [Runs -> RunLabels] /\ state' \in [Runs -> {"none", "live", "cancelled"}]
    BY <1>1, <1>2, <2>1
  <2> QED BY <1>1, <1>2, <2>2 DEF Typed
<1>4. \A q \in Runs \ {r} : rpc'[q] = rpc[q] /\ state'[q] = state[q]
  BY <1>1, <1>2
<1>5. rpc[r] # "detached" /\ rpc'[r] # "detached"
      /\ rpc[r] \notin {"unused", "void", "reserved", "ended"}
  BY <1>1 DEF Inside
<1>6. LockInv'
  <2>1. \A q \in Runs : rpc'[q] = "detached" => rpc[q] = "detached"
    BY <1>4, <1>5
  <2> QED BY <1>1, <2>1 DEF IInv, LockInv
<1>7. HandleInv'
  <2>1. \A q \in Runs : rpc[q] = "detached" => rpc'[q] = "detached"
    BY <1>4, <1>5
  <2> QED BY <1>1, <2>1 DEF IInv, HandleInv
<1>8. NeverAlreadyOpen'
  BY <1>1 DEF IInv, NeverAlreadyOpen
<1>9. WritesHaveHandle'
  <2>1. handle = r /\ ~gone
    BY <1>5 DEF IInv, WritesHaveHandle
  <2> QED BY <1>1, <1>4, <2>1 DEF IInv, WritesHaveHandle
<1>10. CancelInv'
  BY <1>1, <1>4 DEF IInv, CancelInv
<1> QED BY <1>3, <1>6, <1>7, <1>8, <1>9, <1>10 DEF IInv
----------------------------------------------------------------------------
(* The end of a run, cancel() and the readers.                             *)

(* The slot is freed while the handle is still open, under the lock.       *)
LEMMA DetachStep ==
  ASSUME IInv, NEW r \in Runs, Detach(r)
  PROVE  IInv'
<1>1. /\ UNCHANGED <<handle, gone, at, requested, state, cpc, reader>>
      /\ rpc[r] = "terminal" /\ lock = None /\ lock' = r /\ active' = None
      /\ rpc' = [rpc EXCEPT ![r] = "detached"]
  BY DEF Detach, Free, Goto, inputVars, readVars
<1>2. Typed /\ rpc \in [Runs -> RunLabels]
  BY DEF IInv, Typed
<1>3. handle = r /\ ~gone
  BY <1>1 DEF IInv, WritesHaveHandle
<1>4. /\ \A w \in Readers : reader[w] = "idle"
      /\ \A j \in Inputs : at[j] # "opening"
      /\ \A q \in Runs : rpc[q] # "detached"
  BY <1>1, Apart DEF IInv, LockInv
<1>5. Typed'
  <2>1. rpc' \in [Runs -> RunLabels]
    BY <1>1, <1>2 DEF RunLabels
  <2> QED BY <1>1, <1>2, <2>1 DEF Typed
<1>6. LockInv' /\ NeverAlreadyOpen'
  BY <1>1, <1>2, <1>4 DEF LockInv, NeverAlreadyOpen
<1>7. HandleInv'
  BY <1>1, <1>2, <1>3, <1>4, Apart DEF HandleInv
<1>8. WritesHaveHandle'
  BY <1>1, <1>2, <1>3 DEF IInv, WritesHaveHandle
<1>9. CancelInv'
  BY <1>1, <1>2 DEF IInv, CancelInv, InLoop
<1> QED BY <1>5, <1>6, <1>7, <1>8, <1>9 DEF IInv

(* The run closes the handle it opened, under the lock.                    *)
LEMMA CloseHandleStep ==
  ASSUME IInv, NEW r \in Runs, CloseHandle(r)
  PROVE  IInv'
<1>1. /\ UNCHANGED <<active, gone, at, requested, state, cpc, reader>>
      /\ rpc[r] = "detached" /\ lock' = None /\ handle' = None
      /\ rpc' = [rpc EXCEPT ![r] = "ended"]
  BY DEF CloseHandle, Goto, inputVars, readVars
<1>2. Typed /\ rpc \in [Runs -> RunLabels]
  BY DEF IInv, Typed
<1>3. handle = r /\ lock = r
  BY <1>1 DEF IInv, WritesHaveHandle, LockInv
<1>4. /\ \A w \in Readers : reader[w] = "idle"
      /\ \A j \in Inputs : at[j] # "opening"
      /\ \A q \in Runs : rpc[q] = "detached" => q = r
  BY <1>3, Apart DEF IInv, LockInv
<1>5. Typed'
  <2>1. rpc' \in [Runs -> RunLabels]
    BY <1>1, <1>2 DEF RunLabels
  <2> QED BY <1>1, <1>2, <2>1 DEF Typed
<1>6. LockInv' /\ NeverAlreadyOpen'
  BY <1>1, <1>2, <1>4 DEF LockInv, NeverAlreadyOpen
<1>7. HandleInv'
  BY <1>1, <1>4, Apart DEF HandleInv
<1>8. WritesHaveHandle'
  BY <1>1, <1>2, <1>3 DEF IInv, WritesHaveHandle
<1>9. CancelInv'
  BY <1>1, <1>2 DEF IInv, CancelInv, InLoop
<1> QED BY <1>5, <1>6, <1>7, <1>8, <1>9 DEF IInv

(* The flag, then the state.                                               *)
LEMMA CancelSteps ==
  ASSUME IInv, NEW r \in Runs, RequestCancel(r) \/ CancelState(r)
  PROVE  IInv'
<1>1. UNCHANGED <<lock, active, handle, gone, at, rpc, reader>>
  BY DEF RequestCancel, CancelState, slotVars, inputVars, readVars
<1>2. /\ Typed /\ requested \in [Runs -> BOOLEAN]
      /\ state \in [Runs -> {"none", "live", "cancelled"}]
      /\ cpc \in [Runs -> {"none", "flagged", "returned"}]
  BY DEF IInv, Typed
<1>3. Typed' /\ CancelInv'
  <2>1. CASE RequestCancel(r)
    <3>1. /\ requested' = [requested EXCEPT ![r] = TRUE] /\ state' = state
          /\ cpc' = [cpc EXCEPT ![r] = "flagged"]
      BY <2>1 DEF RequestCancel
    <3>2. Typed'
      BY <1>1, <1>2, <3>1 DEF Typed
    <3>3. CancelInv'
      BY <1>1, <1>2, <3>1 DEF IInv, CancelInv
    <3> QED BY <3>2, <3>3
  <2>2. CASE CancelState(r)
    <3>1. /\ requested' = requested /\ cpc[r] = "flagged"
          /\ state' = [state EXCEPT ![r] = IF state[r] = "none" THEN state[r] ELSE "cancelled"]
          /\ cpc' = [cpc EXCEPT ![r] = "returned"]
      BY <2>2 DEF CancelState
    <3>2. Typed'
      BY <1>1, <1>2, <3>1 DEF Typed
    <3>3. CancelInv'
      BY <1>1, <1>2, <3>1 DEF IInv, CancelInv
    <3> QED BY <3>2, <3>3
  <2> QED BY <2>1, <2>2
<1>4. LockInv' /\ HandleInv' /\ NeverAlreadyOpen' /\ WritesHaveHandle'
  BY <1>1 DEF IInv, LockInv, HandleInv, NeverAlreadyOpen, WritesHaveHandle
<1> QED BY <1>3, <1>4 DEF IInv

(* A reader or a deletion takes the lock.                                  *)
LEMMA ReadSteps ==
  ASSUME IInv, NEW w \in Readers, Read(w) \/ Delete(w)
  PROVE  IInv'
<1>1. /\ UNCHANGED <<active, handle, gone, at, rpc, requested, state, cpc>>
      /\ reader[w] = "idle" /\ lock = None /\ lock' = w
      /\ reader' = [reader EXCEPT ![w] = reader'[w]]
      /\ reader'[w] \in {"borrowing", "opening", "deleting"}
      /\ reader'[w] # "borrowing" => active = None
  <2>1. reader \in [Readers -> {"idle", "borrowing", "opening", "reading", "deleting",
                                "releasing"}]
    BY DEF IInv, Typed
  <2>2. CASE Read(w)
    BY <2>1, <2>2 DEF Read, Free, inputVars, runVars
  <2>3. CASE Delete(w)
    BY <2>1, <2>3 DEF Delete, Free, inputVars, runVars
  <2> QED BY <2>2, <2>3
<1>2. /\ Typed
      /\ reader \in [Readers -> {"idle", "borrowing", "opening", "reading", "deleting",
                                 "releasing"}]
  BY DEF IInv, Typed
<1>3. reader'[w] # "borrowing" => handle = None
  BY <1>1, FreeMeansClosed DEF Free
<1>4. /\ \A v \in Readers : reader[v] = "idle"
      /\ \A j \in Inputs : at[j] # "opening"
      /\ \A q \in Runs : rpc[q] # "detached"
  BY <1>1, Apart DEF IInv, LockInv
<1>5. Typed'
  <2>1. reader' \in [Readers -> {"idle", "borrowing", "opening", "reading", "deleting",
                                 "releasing"}]
    BY <1>1, <1>2
  <2> QED BY <1>1, <1>2, <2>1 DEF Typed
<1>6. \A v \in Readers \ {w} : reader'[v] = "idle"
  BY <1>1, <1>2, <1>4
<1>7. LockInv'
  BY <1>1, <1>4, <1>6 DEF LockInv
<1>8. NeverAlreadyOpen'
  BY <1>1, <1>3, <1>4, <1>6 DEF NeverAlreadyOpen
<1>9. HandleInv'
  <2>1. \A v \in Readers : handle # v
    BY <1>4 DEF IInv, HandleInv
  <2> QED BY <1>1, <1>6, <2>1 DEF IInv, HandleInv
<1>10. WritesHaveHandle' /\ CancelInv'
  BY <1>1 DEF IInv, WritesHaveHandle, CancelInv
<1> QED BY <1>5, <1>7, <1>8, <1>9, <1>10 DEF IInv

(* Readers and a deletion borrow the handle of a run or open one of their  *)
(* own under the lock.                                                     *)
LEMMA ReaderSteps ==
  ASSUME IInv, NEW w \in Readers, ReaderStep(w)
  PROVE  IInv'
<1>1. UNCHANGED <<active, at, rpc, requested, state, cpc>>
  BY DEF ReaderStep, ReaderOpens, ReaderDone, inputVars, runVars
<1>2. /\ Typed
      /\ reader \in [Readers -> {"idle", "borrowing", "opening", "reading", "deleting",
                                 "releasing"}]
  BY DEF IInv, Typed
<1>3. reader[w] # "idle" /\ lock = w
  BY DEF IInv, LockInv, ReaderStep, ReaderOpens, ReaderDone
<1>4. /\ \A v \in Readers \ {w} : reader[v] = "idle"
      /\ \A j \in Inputs : at[j] # "opening"
      /\ \A q \in Runs : rpc[q] # "detached"
  BY <1>3, Apart DEF IInv, LockInv
<1>5. CancelInv'
  BY <1>1 DEF IInv, CancelInv
<1>6. CASE ReaderOpens(w)
  <2>1. /\ reader[w] \in {"opening", "deleting"} /\ handle = None /\ handle' = w
        /\ reader' = [reader EXCEPT ![w] = reader'[w]]
        /\ reader'[w] \in {"reading", "releasing"}
        /\ lock' = lock /\ gone' = gone
    BY <1>2, <1>6 DEF ReaderOpens
  <2>2. Typed'
    <3>1. reader' \in [Readers -> {"idle", "borrowing", "opening", "reading", "deleting",
                                   "releasing"}]
      BY <1>2, <2>1
    <3> QED BY <1>1, <1>2, <2>1, <3>1 DEF Typed
  <2>3. \A v \in Readers \ {w} : reader'[v] = "idle"
    BY <1>2, <1>4, <2>1
  <2>4. LockInv' /\ NeverAlreadyOpen'
    BY <1>1, <1>3, <1>4, <2>1, <2>3 DEF LockInv, NeverAlreadyOpen
  <2>5. HandleInv'
    BY <2>1, <2>3, Apart DEF HandleInv
  <2>6. WritesHaveHandle'
    BY <1>1, <2>1, Apart DEF IInv, WritesHaveHandle
  <2> QED BY <1>5, <2>2, <2>4, <2>5, <2>6 DEF IInv
<1>7. CASE ReaderDone(w)
  <2>1. /\ reader[w] \in {"borrowing", "reading", "releasing"}
        /\ handle' = IF reader[w] = "borrowing" THEN handle ELSE None
        /\ gone' = (gone \/ reader[w] = "releasing") /\ lock' = None
        /\ reader' = [reader EXCEPT ![w] = "idle"]
    BY <1>7 DEF ReaderDone
  <2>2. /\ gone' \in BOOLEAN
        /\ reader[w] = "borrowing" => handle' = handle /\ (gone' <=> gone)
        /\ reader[w] # "borrowing" => handle = w /\ handle' = None
    BY <2>1 DEF IInv, HandleInv
  <2>3. Typed'
    <3>1. reader' \in [Readers -> {"idle", "borrowing", "opening", "reading", "deleting",
                                   "releasing"}]
      BY <1>2, <2>1
    <3>2. handle' \in Runs \cup Readers \cup {None}
      BY <1>2, <2>2 DEF Typed
    <3> QED BY <1>1, <1>2, <2>1, <2>2, <3>1, <3>2 DEF Typed
  <2>4. \A v \in Readers : reader'[v] = "idle"
    BY <1>2, <1>4, <2>1
  <2>5. LockInv' /\ NeverAlreadyOpen'
    BY <1>1, <1>4, <2>4 DEF LockInv, NeverAlreadyOpen
  <2>6. HandleInv'
    <3>1. \A v \in Readers : handle' # v
      BY <1>4, <2>1, <2>2, Apart DEF IInv, HandleInv
    <3>2. \A q \in Runs : handle' = q => handle = q
      BY <2>2, Apart
    <3> QED BY <1>1, <2>4, <3>1, <3>2 DEF IInv, HandleInv
  <2>7. WritesHaveHandle'
    BY <1>1, <2>2, Apart DEF IInv, WritesHaveHandle
  <2> QED BY <1>5, <2>3, <2>5, <2>6, <2>7 DEF IInv
<1> QED BY <1>6, <1>7 DEF ReaderStep

----------------------------------------------------------------------------
(* The invariant is inductive.                                             *)
LEMMA NextInv == IInv /\ [Next]_vars => IInv'
<1> SUFFICES ASSUME IInv, [Next]_vars PROVE IInv'
  OBVIOUS
<1>1. ASSUME NEW i \in Inputs,
             \/ \E m \in {"now", "after", "direct"} : Submit(i, m)
             \/ InputStep(i) \/ Claim(i) \/ Drop(i)
      PROVE  IInv'
  <2>1. CASE Reserve(i)
    BY <2>1, ReserveStep
  <2>2. CASE OpenOk(i) \/ OpenFail(i)
    BY <2>2, OpenSteps
  <2>3. CASE ~Reserve(i) /\ ~OpenOk(i) /\ ~OpenFail(i)
    BY <1>1, <2>3, QueueSteps, QueueInv DEF InputStep
  <2> QED BY <2>1, <2>2, <2>3
<1>2. CASE SweepInbox
  <2>1. PICK i \in Inputs : TRUE
    BY <1>2 DEF SweepInbox
  <2> QED BY <1>2, QueueSteps, QueueInv
<1>3. ASSUME NEW r \in Runs, RunStep(r) \/ RequestCancel(r) \/ CancelState(r) PROVE IInv'
  <2>1. CASE Detach(r) \/ CloseHandle(r)
    BY <2>1, DetachStep, CloseHandleStep
  <2>2. CASE RequestCancel(r) \/ CancelState(r)
    BY <2>2, CancelSteps
  <2>3. CASE RunStep(r) /\ ~Detach(r) /\ ~CloseHandle(r)
    BY <2>3, InsideSteps, InsideInv DEF RunStep
  <2> QED BY <1>3, <2>1, <2>2, <2>3
<1>4. ASSUME NEW w \in Readers, Read(w) \/ Delete(w) \/ ReaderStep(w) PROVE IInv'
  BY <1>4, ReadSteps, ReaderSteps
<1>5. CASE UNCHANGED vars
  <2>1. QueueStep
    BY <1>5 DEF vars, slotVars, inputVars, runVars, readVars, QueueStep, IInv, Typed
  <2> QED BY <2>1, QueueInv
<1> QED BY <1>1, <1>2, <1>3, <1>4, <1>5 DEF Next

(* Lock, slot, handle and cancel handshake stay consistent through starts, *)
(* rounds, ends, reads and deletions.                                      *)
THEOREM RunInvariance == Spec => []IInv
<1> QED BY InitInv, NextInv, PTL DEF Spec

(* start(), the readers and delete() never meet SessionAlreadyOpenError.   *)
THEOREM OpensFindNoHandle == Spec => []NeverAlreadyOpen
<1>1. IInv => NeverAlreadyOpen
  BY DEF IInv
<1> QED BY <1>1, RunInvariance, PTL

(* A run thread writes through its own open handle, and never into a       *)
(* session that delete() removed.                                          *)
THEOREM RunsWriteThroughHandle == Spec => []WritesHaveHandle
<1>1. IInv => WritesHaveHandle
  BY DEF IInv
<1> QED BY <1>1, RunInvariance, PTL

(* At most one run of the session is between the opening of its handle and *)
(* the closing of it: one slot, whoever starts it.                         *)
OneRunAtATime ==
  \A r, q \in Runs :
    rpc[r] \in Inside \cup {"detached"} /\ rpc[q] \in Inside \cup {"detached"} => r = q

(* One run per session at a time, for any number of runs and callers.      *)
THEOREM OneRunPerSession == Spec => []OneRunAtATime
<1>1. IInv => OneRunAtATime
  BY DEF IInv, WritesHaveHandle, OneRunAtATime, Inside
<1> QED BY <1>1, RunInvariance, PTL

(* Once cancel() has returned, no further round begins, wherever the run   *)
(* thread stood in publishing its state.                                   *)
THEOREM CancelIsNeverLost == Spec => CancelStopsRounds
<1>1. ASSUME IInv, [Next]_vars, NEW r \in Runs, cpc[r] = "returned", rpc[r] = "top",
             rpc'[r] = "calling"
      PROVE  FALSE
  <2>1. state[r] = "cancelled" /\ rpc \in [Runs -> RunLabels]
    BY <1>1 DEF IInv, CancelInv, InLoop, Typed
  <2>2. ASSUME NEW i \in Inputs,
               \/ \E m \in {"now", "after", "direct"} : Submit(i, m)
               \/ InputStep(i) \/ Claim(i) \/ Drop(i)
        PROVE  FALSE
    <3>1. CASE Reserve(i)
      BY <1>1, <2>1, <3>1 DEF Reserve, Goto
    <3>2. CASE OpenOk(i) \/ OpenFail(i)
      BY <1>1, <2>1, <3>2 DEF OpenOk, OpenFail, Goto
    <3>3. CASE ~Reserve(i) /\ ~OpenOk(i) /\ ~OpenFail(i)
      BY <1>1, <2>2, <3>3, QueueSteps DEF InputStep, QueueStep
    <3> QED BY <3>1, <3>2, <3>3
  <2>3. CASE SweepInbox \/ UNCHANGED vars
    BY <1>1, <2>3 DEF SweepInbox, runVars, vars
  <2>4. ASSUME NEW q \in Runs, RunStep(q) PROVE FALSE
    <3>1. CASE q # r
      <4>1. CASE Detach(q) \/ CloseHandle(q)
        BY <1>1, <2>1, <3>1, <4>1 DEF Detach, CloseHandle, Goto
      <4>2. CASE ~Detach(q) /\ ~CloseHandle(q)
        BY <1>1, <2>1, <2>4, <3>1, <4>2, InsideSteps DEF RunStep, InsideStep
      <4> QED BY <4>1, <4>2
    <3>2. CASE q = r
      <4>1. TopCancelled(r)
        BY <1>1, <2>1, <2>4, <3>2 DEF RunStep, EndEarly, Assemble, ReplayCancel, RecordPrompt,
           Deliver, CallModel, RunTools, GateSteers, GateEnd, Downgrade, Announce, Detach,
           CloseHandle
      <4> QED BY <1>1, <2>1, <4>1 DEF TopCancelled, Goto
    <3> QED BY <3>1, <3>2
  <2>5. ASSUME NEW q \in Runs, RequestCancel(q) \/ CancelState(q) PROVE FALSE
    BY <1>1, <2>5 DEF RequestCancel, CancelState
  <2>6. ASSUME NEW w \in Readers, Read(w) \/ Delete(w) \/ ReaderStep(w) PROVE FALSE
    BY <1>1, <2>6 DEF Read, Delete, ReaderStep, ReaderOpens, ReaderDone, runVars
  <2> QED BY <1>1, <2>2, <2>3, <2>4, <2>5, <2>6 DEF Next
<1>2. IInv /\ [Next]_vars =>
        [\A r \in Runs : cpc[r] = "returned" /\ rpc[r] = "top" => rpc'[r] # "calling"]_vars
  BY <1>1
<1> QED BY <1>2, RunInvariance, PTL DEF Spec, CancelStopsRounds

----------------------------------------------------------------------------
(* The inbox.                                                              *)

(* What a filter of a sequence keeps: the elements in S, each as often as  *)
(* it was there, so that a sequence without repetition stays one.          *)
LEMMA OnlyIs ==
  ASSUME NEW A, NEW s \in Seq(A), NEW S
  PROVE  /\ Only(s, S) \in Seq(A)
         /\ Range(Only(s, S)) = Range(s) \cap S
         /\ IsInjective(s) => IsInjective(Only(s, S))
<1> DEFINE kept == {k \in 1..Len(s) : s[k] \in S}
           Upto(k) == {j \in kept : j <= k}
           n == Cardinality(kept)
           pos(m) == CHOOSE k \in kept : Cardinality(Upto(k)) = m
<1>1. Only(s, S) = [m \in 1..n |-> s[pos(m)]]
  BY DEF Only
<1>2. Len(s) \in Nat /\ kept \subseteq 1..Len(s) /\ kept \subseteq Nat
  OBVIOUS
<1>3. IsFiniteSet(kept) /\ n \in Nat
  <2>1. IsFiniteSet(1..Len(s))
    BY <1>2, FS_Interval
  <2>2. IsFiniteSet(kept)
    BY <1>2, <2>1, FS_Subset
  <2> QED BY <2>2, FS_CardinalityType
<1>4. \A k \in 1..Len(s) : k \in kept <=> s[k] \in S
  OBVIOUS
<1>5. DOMAIN s = 1..Len(s) /\ \A k \in 1..Len(s) : s[k] \in A
  OBVIOUS
<1> HIDE DEF kept
<1>6. ASSUME NEW k \in kept
      PROVE  /\ IsFiniteSet(Upto(k)) /\ Cardinality(Upto(k)) \in 1..n
             /\ \A j \in kept : Cardinality(Upto(j)) = Cardinality(Upto(k)) => j = k
  <2>1. ASSUME NEW j \in kept
        PROVE  /\ IsFiniteSet(Upto(j)) /\ Cardinality(Upto(j)) \in Nat
               /\ Cardinality(Upto(j)) <= n /\ j \in Upto(j)
    <3>1. Upto(j) \subseteq kept /\ j \in Upto(j)
      BY <1>2
    <3> HIDE DEF Upto
    <3> QED BY <1>3, <3>1, FS_Subset, FS_CardinalityType
  <2>2. ASSUME NEW i \in kept, NEW j \in kept, i <= j,
               Cardinality(Upto(i)) = Cardinality(Upto(j))
        PROVE  i = j
    <3>1. Upto(i) \subseteq Upto(j)
      <4>1. \A x \in kept : x <= i => x <= j
        BY <1>2, <2>2
      <4> QED BY <4>1
    <3>2. Upto(i) = Upto(j)
      <4> HIDE DEF Upto
      <4> QED BY <2>1, <2>2, <3>1, FS_Subset
    <3>3. j \in Upto(i)
      BY <2>1, <3>2
    <3> QED BY <1>2, <2>2, <3>3
  <2>3. Cardinality(Upto(k)) # 0
    <3> HIDE DEF Upto
    <3> QED BY <2>1, FS_EmptySet
  <2>4. Cardinality(Upto(k)) \in 1..n
    <3> HIDE DEF Upto, n
    <3> QED BY <1>3, <2>1, <2>3
  <2>5. \A j \in kept : Cardinality(Upto(j)) = Cardinality(Upto(k)) => j = k
    <3> HIDE DEF Upto
    <3> QED BY <1>2, <2>2
  <2> QED BY <2>1, <2>4, <2>5
<1> DEFINE rank == [k \in kept |-> Cardinality(Upto(k))]
<1>7. rank \in Surjection(kept, 1..n)
  <2>1. rank \in Injection(kept, 1..n)
    <3>1. rank \in [kept -> 1..n] /\ \A j, k \in kept : rank[j] = rank[k] => j = k
      <4> HIDE DEF Upto, n
      <4> QED BY <1>6
    <3> HIDE DEF rank
    <3> QED BY <3>1 DEF Injection, IsInjective
  <2>2. IsFiniteSet(1..n) /\ Cardinality(1..n) = Cardinality(kept)
    BY <1>3, FS_Interval
  <2> HIDE DEF rank, n
  <2> QED BY <2>1, <2>2, FS_Injection
<1>8. \A m \in 1..n : \E k \in kept : Cardinality(Upto(k)) = m
  <2>1. \A m \in 1..n : \E k \in kept : rank[k] = m
    <3> HIDE DEF rank, n
    <3> QED BY <1>7 DEF Surjection
  <2> HIDE DEF Upto, n
  <2> QED BY <2>1
<1> HIDE DEF Upto, n
<1>9. \A m \in 1..n : pos(m) \in kept /\ Cardinality(Upto(pos(m))) = m
  BY <1>8
<1>10. \A k \in kept : \E m \in 1..n : pos(m) = k
  <2> TAKE k \in kept
  <2> DEFINE m == Cardinality(Upto(k))
  <2>1. m \in 1..n
    BY <1>6
  <2>2. pos(m) \in kept /\ Cardinality(Upto(pos(m))) = m
    BY <1>9, <2>1
  <2> HIDE DEF pos
  <2>3. pos(m) = k
    BY <1>6, <2>2
  <2> QED BY <2>1, <2>3
<1> HIDE DEF pos
<1>11. Only(s, S) \in Seq(A) /\ DOMAIN Only(s, S) = 1..n
  <2>1. \A m \in 1..n : s[pos(m)] \in A
    BY <1>2, <1>5, <1>9
  <2>2. [m \in 1..n |-> s[pos(m)]] \in [1..n -> A]
    BY <2>1
  <2> DEFINE f == [m \in 1..n |-> s[pos(m)]]
  <2>3. f \in Seq(A) /\ DOMAIN f = 1..n
    <3> HIDE DEF f
    <3> QED BY <1>3, <2>2 DEF f
  <2> QED BY <1>1, <2>3
<1>12. \A m \in 1..n : Only(s, S)[m] = s[pos(m)]
  BY <1>1
<1>13. Range(Only(s, S)) = Range(s) \cap S
  <2>1. ASSUME NEW x \in Range(Only(s, S)) PROVE x \in Range(s) /\ x \in S
    <3>1. PICK m \in 1..n : x = s[pos(m)]
      BY <1>11, <1>12 DEF Range
    <3> QED BY <1>2, <1>4, <1>5, <1>9, <3>1 DEF Range
  <2>2. ASSUME NEW x \in Range(s), x \in S PROVE x \in Range(Only(s, S))
    <3>1. PICK k \in 1..Len(s) : x = s[k]
      BY <1>5 DEF Range
    <3>2. PICK m \in 1..n : pos(m) = k
      BY <1>4, <1>10, <2>2, <3>1
    <3> QED BY <1>11, <1>12, <3>1, <3>2 DEF Range
  <2> QED BY <2>1, <2>2
<1>14. ASSUME IsInjective(s) PROVE IsInjective(Only(s, S))
  <2> SUFFICES ASSUME NEW a \in 1..n, NEW b \in 1..n, Only(s, S)[a] = Only(s, S)[b]
               PROVE  a = b
    BY <1>11 DEF IsInjective
  <2>1. s[pos(a)] = s[pos(b)]
    BY <1>12
  <2>2. pos(a) = pos(b)
    BY <1>2, <1>5, <1>9, <1>14, <2>1 DEF IsInjective
  <2> QED BY <1>9, <2>2
<1> QED BY <1>11, <1>13, <1>14

(* An element that is not there yet may be put at either end.              *)
LEMMA AddIs ==
  ASSUME NEW A, NEW s \in Seq(A), NEW x \in A, x \notin Range(s), IsInjective(s),
         NEW t, t = Append(s, x) \/ t = <<x>> \o s
  PROVE  t \in Seq(A) /\ IsInjective(t) /\ Range(t) = Range(s) \cup {x}
<1>1. DOMAIN s = 1..Len(s) /\ Len(s) \in Nat
  OBVIOUS
<1>2. \A k \in 1..Len(s) : s[k] # x
  BY <1>1 DEF Range
<1>3. CASE t = Append(s, x)
  <2>1. /\ t \in Seq(A) /\ DOMAIN t = 1..(Len(s) + 1) /\ t[Len(s) + 1] = x
        /\ \A k \in 1..Len(s) : t[k] = s[k]
    BY <1>3
  <2>2. IsInjective(t)
    BY <1>1, <1>2, <2>1 DEF IsInjective
  <2>3. Range(t) = Range(s) \cup {x}
    <3>1. \A k \in 1..(Len(s) + 1) : k \in 1..Len(s) \/ k = Len(s) + 1
      BY <1>1
    <3>2. Len(s) + 1 \in 1..(Len(s) + 1) /\ \A k \in 1..Len(s) : k \in 1..(Len(s) + 1)
      BY <1>1
    <3> QED BY <1>1, <2>1, <3>1, <3>2 DEF Range
  <2> QED BY <2>1, <2>2, <2>3
<1>4. CASE t = <<x>> \o s
  <2>1. /\ t \in Seq(A) /\ DOMAIN t = 1..(Len(s) + 1) /\ t[1] = x
        /\ \A k \in 1..Len(s) : t[k + 1] = s[k]
    BY <1>4
  <2>2. \A k \in 1..(Len(s) + 1) : k = 1 \/ (k - 1 \in 1..Len(s) /\ (k - 1) + 1 = k)
    BY <1>1
  <2>3. \A k \in 1..(Len(s) + 1) : k = 1 \/ t[k] = s[k - 1]
    BY <2>1, <2>2
  <2>4. IsInjective(t)
    <3> SUFFICES ASSUME NEW a \in 1..(Len(s) + 1), NEW b \in 1..(Len(s) + 1), t[a] = t[b]
                 PROVE  a = b
      BY <2>1 DEF IsInjective
    <3>1. CASE a = 1 \/ b = 1
      BY <1>2, <2>1, <2>2, <2>3, <3>1
    <3>2. CASE a # 1 /\ b # 1
      <4>1. s[a - 1] = s[b - 1]
        BY <2>3, <3>2
      <4>2. a - 1 = b - 1
        BY <1>1, <2>2, <3>2, <4>1 DEF IsInjective
      <4> QED BY <1>1, <4>2
    <3> QED BY <3>1, <3>2
  <2>5. Range(t) = Range(s) \cup {x}
    <3>1. 1 \in 1..(Len(s) + 1) /\ \A k \in 1..Len(s) : k + 1 \in 1..(Len(s) + 1)
      BY <1>1
    <3>2. ASSUME NEW y \in Range(t) PROVE y \in Range(s) \cup {x}
      <4>1. PICK k \in 1..(Len(s) + 1) : y = t[k]
        BY <2>1 DEF Range
      <4>2. CASE k = 1
        BY <2>1, <4>1, <4>2
      <4>3. CASE k # 1
        <5>1. k - 1 \in 1..Len(s) /\ y = s[k - 1]
          BY <2>2, <2>3, <4>1, <4>3
        <5> QED BY <1>1, <5>1 DEF Range
      <4> QED BY <4>2, <4>3
    <3>3. ASSUME NEW y \in Range(s) PROVE y \in Range(t)
      <4>1. PICK k \in 1..Len(s) : y = s[k]
        BY <1>1 DEF Range
      <4> DEFINE m == k + 1
      <4>2. m \in 1..(Len(s) + 1) /\ t[m] = y
        BY <2>1, <3>1, <4>1
      <4> HIDE DEF m
      <4> QED BY <2>1, <4>2 DEF Range
    <3>4. x \in Range(t)
      BY <2>1, <3>1 DEF Range
    <3> QED BY <3>2, <3>3, <3>4
  <2> QED BY <2>1, <2>4, <2>5
<1> QED BY <1>3, <1>4

(* Where an input is once a run has it; it never comes back from there.    *)
Used == {"prompt", "taken", "recorded", "unsaved", "lost"}

QueueTyped ==
  /\ inbox \in Seq(Inputs) /\ pending \in [Runs -> Seq(Inputs)]
  /\ prompt \in [Runs -> Inputs \cup {None}]

(* What a run holds, taken at a gate or as its prompt, is no longer queued *)
(* anywhere.                                                               *)
HeldInv ==
  /\ \A r \in Runs : \A i \in Range(pending[r]) : at[i] \in Used
  /\ \A r \in Runs :
       rpc[r] \in {"boot", "assembled", "prompting"} => prompt[r] \in Inputs /\ at[prompt[r]] \in Used

(* A reserved run and the thread that reserved it belong together.         *)
ReservedInv ==
  /\ \A r \in Runs : rpc[r] = "reserved" =>
       active = r /\ prompt[r] \in Inputs /\ at[prompt[r]] = "opening"
  /\ \A i \in Inputs : at[i] = "opening" =>
       active \in Runs /\ prompt[active] = i /\ rpc[active] = "reserved"

QInv == QueueTyped /\ QueueIsExact /\ HeldInv /\ ReservedInv

(* A step of an input's thread that no run is part of.                     *)
LEMMA MoveInv ==
  ASSUME QInv, Typed, NEW i \in Inputs, NEW l \in Places \ {"opening"},
         at[i] \notin Used \cup {"opening"}, Move(i, l), inbox' \in Seq(Inputs), QueueIsExact',
         UNCHANGED <<active, rpc, prompt, pending>>
  PROVE  QInv'
<1>1. \A j \in Inputs : at'[j] = IF j = i THEN l ELSE at[j]
  BY DEF Move, Typed
<1>2. QueueTyped'
  BY DEF QInv, QueueTyped
<1>3. \A r \in Runs : Range(pending[r]) \subseteq Inputs
  BY DEF QInv, QueueTyped, Range
<1>4. HeldInv'
  BY <1>1, <1>3 DEF QInv, HeldInv
<1>5. ReservedInv'
  BY <1>1 DEF QInv, ReservedInv
<1> QED BY <1>2, <1>4, <1>5 DEF QInv

(* submit_input(), start_queued() up to the lock, drop_input(), restore(): *)
(* the inbox changes together with the place of the input.                 *)
LEMMA InboxSteps ==
  ASSUME QInv, IInv, NEW i \in Inputs,
         \/ \E m \in {"now", "after", "direct"} : Submit(i, m)
         \/ Decide(i) \/ Add(i) \/ Find(i) \/ Busy(i) \/ Claim(i) \/ LookUpAgain(i)
         \/ Restore(i) \/ Drop(i)
  PROVE  QInv'
<1>1. Typed /\ at \in [Inputs -> Places] /\ inbox \in Seq(Inputs)
  BY DEF IInv, Typed, QInv, QueueTyped
<1>2. IsInjective(inbox) /\ Range(inbox) = {j \in Inputs : at[j] = "queued"}
  BY DEF QInv, QueueIsExact
<1>3. UNCHANGED <<active, rpc, prompt, pending>>
  BY DEF Submit, Decide, Add, Find, Busy, Claim, LookUpAgain, Restore, Drop, slotVars, runVars
<1>4. ASSUME NEW l \in Places \ {"opening", "queued"}, Move(i, l), inbox' = inbox,
             at[i] \notin Used \cup {"opening", "queued"}
      PROVE  QInv'
  <2>1. QueueIsExact'
    BY <1>1, <1>2, <1>4 DEF Move, QueueIsExact
  <2> QED BY <1>1, <1>3, <1>4, <2>1, MoveInv
<1>5. ASSUME Move(i, "queued"), inbox' \in {Append(inbox, i), <<i>> \o inbox},
             at[i] \notin Used \cup {"opening", "queued"}
      PROVE  QInv'
  <2>1. i \notin Range(inbox)
    BY <1>2, <1>5
  <2>2. inbox' \in Seq(Inputs) /\ IsInjective(inbox') /\ Range(inbox') = Range(inbox) \cup {i}
    <3>1. inbox' = Append(inbox, i) \/ inbox' = <<i>> \o inbox
      BY <1>5
    <3> QED BY <1>1, <1>2, <2>1, <3>1, AddIs
  <2>3. QueueIsExact'
    BY <1>1, <1>2, <1>5, <2>2 DEF Move, QueueIsExact
  <2> QED BY <1>1, <1>3, <1>5, <2>2, <2>3, MoveInv DEF Places
<1>6. CASE \E m \in {"now", "after", "direct"} : Submit(i, m)
  <2>1. PICK m \in {"now", "after", "direct"} : Submit(i, m)
    BY <1>6
  <2>2. \E l \in {"start", "deciding"} : Move(i, l)
    BY <2>1 DEF Submit
  <2> QED BY <1>4, <2>1, <2>2 DEF Submit, Used, Places
<1>7. CASE Decide(i) \/ Find(i) \/ Busy(i)
  <2>1. \E l \in {"start", "adding", "restoring", "refused", "locking"} : Move(i, l)
    BY <1>7 DEF Decide, Find, Busy, Raised
  <2>2. inbox' = inbox /\ at[i] \in {"deciding", "start", "claimed", "locking"}
    BY <1>7 DEF Decide, Find, Busy
  <2> QED BY <1>4, <2>1, <2>2 DEF Used, Places
<1>8. CASE LookUpAgain(i)
  BY <1>4, <1>8 DEF LookUpAgain, Used, Places
<1>9. CASE Add(i) \/ Restore(i)
  <2>1. CASE orphan[i]
    BY <1>4, <1>9, <2>1 DEF Add, Restore, Used, Places
  <2>2. CASE ~orphan[i]
    BY <1>5, <1>9, <2>2 DEF Add, Restore, Used, Places
  <2> QED BY <2>1, <2>2
<1>10. CASE Claim(i) \/ Drop(i)
  <2>1. PICK l \in {"claimed", "dropped"} : Move(i, l)
    BY <1>10 DEF Claim, Drop
  <2>2. at[i] = "queued" /\ inbox' = Only(inbox, Inputs \ {i})
    BY <1>10 DEF Claim, Drop
  <2>3. /\ inbox' \in Seq(Inputs) /\ IsInjective(inbox')
        /\ Range(inbox') = Range(inbox) \cap (Inputs \ {i})
    BY <1>1, <1>2, <2>2, OnlyIs
  <2>4. QueueIsExact'
    BY <1>1, <1>2, <2>1, <2>3 DEF Move, QueueIsExact
  <2> QED BY <1>1, <1>3, <2>1, <2>2, <2>3, <2>4, MoveInv DEF Places, Used
<1> QED BY <1>6, <1>7, <1>8, <1>9, <1>10

(* start(): the input that waited for the lock is bound to the new run,    *)
(* and stays bound until the session is open.                              *)
LEMMA StartSteps ==
  ASSUME QInv, IInv, NEW i \in Inputs, Reserve(i) \/ OpenOk(i) \/ OpenFail(i)
  PROVE  QInv'
<1>1. /\ Typed /\ at \in [Inputs -> Places] /\ rpc \in [Runs -> RunLabels]
      /\ prompt \in [Runs -> Inputs \cup {None}]
      /\ \A r \in Runs : Range(pending[r]) \subseteq Inputs
  BY DEF IInv, Typed, QInv, QueueTyped, Range
<1>2. PICK l \in {"opening", "prompt", "restoring", "refused"} : Move(i, l)
  BY DEF Reserve, OpenOk, OpenFail, Raised
<1>3. inbox' = inbox /\ pending' = pending /\ at[i] \in {"locking", "opening"}
  BY DEF Reserve, OpenOk, OpenFail
<1>4. \A j \in Inputs : at'[j] = IF j = i THEN l ELSE at[j]
  BY <1>1, <1>2 DEF Move
<1>5. QueueIsExact'
  <2>1. {j \in Inputs : at'[j] = "queued"} = {j \in Inputs : at[j] = "queued"}
    BY <1>3, <1>4
  <2> QED BY <1>3, <2>1 DEF QInv, QueueIsExact
<1>6. \A j \in Inputs : at[j] \in Used => at'[j] \in Used
  BY <1>3, <1>4 DEF Used
<1>7. CASE Reserve(i)
  <2>1. NewRun \in Runs /\ rpc[NewRun] = "unused"
    BY <1>7 DEF Reserve, NewRun
  <2>2. /\ active = None /\ active' = NewRun /\ prompt' = [prompt EXCEPT ![NewRun] = i]
        /\ rpc' = [rpc EXCEPT ![NewRun] = "reserved"] /\ l = "opening" /\ lock = None
    <3>1. at'[i] = "opening"
      BY <1>1, <1>7 DEF Reserve, Move
    <3> QED BY <1>4, <1>7, <3>1 DEF Reserve, Goto, Free
  <2> HIDE DEF NewRun
  <2>3. QueueTyped'
    BY <1>1, <1>3, <2>1, <2>2 DEF QInv, QueueTyped
  <2>4. HeldInv'
    BY <1>1, <1>3, <1>6, <2>1, <2>2 DEF QInv, HeldInv
  <2>5. \A j \in Inputs : at[j] # "opening"
    BY <2>2, Apart DEF QInv, ReservedInv
  <2>6. \A r \in Runs : rpc[r] # "reserved"
    BY <2>2, Apart DEF QInv, ReservedInv
  <2>7. ReservedInv'
    BY <1>1, <1>4, <2>1, <2>2, <2>5, <2>6 DEF ReservedInv
  <2> QED BY <1>5, <2>3, <2>4, <2>7 DEF QInv
<1>8. CASE OpenOk(i) \/ OpenFail(i)
  <2>1. at[i] = "opening" /\ prompt' = prompt
    BY <1>8 DEF OpenOk, OpenFail
  <2>2. active \in Runs /\ prompt[active] = i /\ rpc[active] = "reserved"
    BY <2>1 DEF QInv, ReservedInv
  <2>3. \A r \in Runs : rpc[r] = "reserved" => r = active
    BY DEF QInv, ReservedInv
  <2>4. \A j \in Inputs : at[j] = "opening" => j = i
    BY <2>1 DEF IInv, LockInv
  <2>5. l # "opening" /\ \/ l = "prompt" /\ rpc' = [rpc EXCEPT ![active] = "boot"]
                         \/ rpc' = [rpc EXCEPT ![active] = "void"]
    <3>1. CASE OpenOk(i)
      <4>1. at'[i] = "prompt"
        BY <1>1, <3>1 DEF OpenOk, Move
      <4> QED BY <1>4, <3>1, <4>1 DEF OpenOk, Goto
    <3>2. CASE OpenFail(i)
      <4>1. at'[i] \in {"restoring", "refused"}
        BY <1>1, <3>2 DEF OpenFail, Move, Raised
      <4> QED BY <1>4, <3>2, <4>1 DEF OpenFail, Goto
    <3> QED BY <1>8, <3>1, <3>2
  <2>6. QueueTyped'
    BY <1>3, <2>1 DEF QInv, QueueTyped
  <2>7. HeldInv'
    BY <1>1, <1>3, <1>4, <1>6, <2>1, <2>2, <2>5 DEF QInv, HeldInv, Used
  <2>8. ReservedInv'
    BY <1>1, <1>4, <2>2, <2>3, <2>4, <2>5 DEF ReservedInv
  <2> QED BY <1>5, <2>6, <2>7, <2>8 DEF QInv
<1> QED BY <1>7, <1>8

(* A step of a run or a reader that touches neither inbox nor inputs.      *)
LEMMA ElsewhereInv ==
  ASSUME QInv, IInv, UNCHANGED <<at, inbox, prompt, pending>>,
         active' = active \/ lock = None,
         \A r \in Runs : rpc'[r] = "reserved" <=> rpc[r] = "reserved",
         \A r \in Runs : rpc'[r] \in {"boot", "assembled", "prompting"} =>
                          rpc[r] \in {"boot", "assembled", "prompting"}
  PROVE  QInv'
<1>1. QueueTyped' /\ QueueIsExact' /\ HeldInv'
  BY DEF QInv, QueueTyped, QueueIsExact, HeldInv
<1>2. ReservedInv'
  <2>1. CASE active' = active
    BY <2>1 DEF QInv, ReservedInv
  <2>2. CASE lock = None
    <3>1. \A j \in Inputs : at[j] # "opening"
      BY <2>2, Apart DEF IInv, LockInv
    <3> QED BY <3>1 DEF QInv, ReservedInv
  <2> QED BY <2>1, <2>2
<1> QED BY <1>1, <1>2 DEF QInv

(* A step of run r in which inputs become used, and the steers among them  *)
(* leave the inbox.                                                        *)
LEMMA TakeInv ==
  ASSUME QInv, IInv, NEW r \in Runs, NEW left,
         \A j \in Inputs : at'[j] # at[j] => at'[j] \in Used /\ at[j] # "opening",
         \A j \in Inputs : at[j] = "queued" => (at'[j] = "queued" <=> j \in left),
         inbox' \in Seq(Inputs), IsInjective(inbox'), Range(inbox') = Range(inbox) \cap left,
         pending' \in [Runs -> Seq(Inputs)],
         \A q \in Runs : \A j \in Range(pending'[q]) : j \in Range(pending[q]) \/ at'[j] \in Used,
         UNCHANGED <<active, prompt>>,
         rpc[r] \in Inside,
         \A q \in Runs \ {r} : rpc'[q] = rpc[q], rpc'[r] \in {"top", "calling", "ending"}
  PROVE  QInv'
<1>1. rpc \in [Runs -> RunLabels] /\ \A q \in Runs : Range(pending[q]) \subseteq Inputs
  BY DEF IInv, Typed, QInv, QueueTyped, Range
<1>2. \A q \in Runs : rpc'[q] = rpc[q] \/ (rpc'[q] \in {"top", "calling", "ending"} /\ q = r)
  OBVIOUS
<1>3. QueueTyped'
  BY DEF QInv, QueueTyped
<1>4. QueueIsExact'
  <2>1. \A j \in Inputs : at'[j] = "queued" => at[j] = "queued"
    BY DEF Used
  <2> QED BY <2>1 DEF QInv, QueueIsExact
<1>5. \A j \in Inputs : at[j] \in Used => at'[j] \in Used
  OBVIOUS
<1>6. HeldInv'
  BY <1>1, <1>2, <1>5 DEF QInv, HeldInv
<1>7. ReservedInv'
  <2>1. \A j \in Inputs : at'[j] = "opening" <=> at[j] = "opening"
    BY DEF Used
  <2>2. \A q \in Runs : rpc'[q] = "reserved" <=> rpc[q] = "reserved"
    BY <1>2 DEF Inside
  <2> QED BY <2>1, <2>2 DEF QInv, ReservedInv
<1> QED BY <1>3, <1>4, <1>6, <1>7 DEF QInv

(* Steps of the run thread: what the gates and the delivery take leaves    *)
(* the inbox, in one step with the change of its place.                    *)
LEMMA RunSteps ==
  ASSUME QInv, IInv, NEW r \in Runs, RunStep(r)
  PROVE  QInv'
<1>1. /\ rpc \in [Runs -> RunLabels] /\ at \in [Inputs -> Places] /\ inbox \in Seq(Inputs)
      /\ pending \in [Runs -> Seq(Inputs)] /\ prompt \in [Runs -> Inputs \cup {None}]
  BY DEF IInv, Typed, QInv, QueueTyped
<1>2. IsInjective(inbox) /\ Range(inbox) = {j \in Inputs : at[j] = "queued"}
  BY DEF QInv, QueueIsExact
<1>3. /\ Range(pending[r]) \subseteq Inputs
      /\ \A j \in Range(pending[r]) : at[j] \in Used
  BY <1>1 DEF QInv, HeldInv, Range
<1> DEFINE now == {j \in Inputs : mode[j] = "now"}
           later == {j \in Inputs : mode[j] # "now"}
<1>4. /\ Steers \in Seq(Inputs) /\ Range(Steers) = Range(inbox) \cap now
      /\ Others \in Seq(Inputs) /\ Range(Others) = Range(inbox) \cap later
      /\ IsInjective(Others)
  BY <1>1, <1>2, OnlyIs DEF Steers, Others
<1>5. CASE EndEarly(r) \/ RecordPrompt(r)
  <2>1. /\ UNCHANGED <<active, inbox, prompt, pending>> /\ rpc[r] \in {"boot", "prompting"}
        /\ \E l \in {"unsaved", "recorded"} : at' = [at EXCEPT ![prompt[r]] = l]
        /\ \E l \in {"ending", "top"} : rpc' = [rpc EXCEPT ![r] = l]
    BY <1>5 DEF EndEarly, RecordPrompt, Move, Goto, slotVars
  <2>2. prompt[r] \in Inputs /\ at[prompt[r]] \in Used
    BY <2>1 DEF QInv, HeldInv
  <2>3. rpc'[r] \in {"top", "calling", "ending"} /\ \A q \in Runs \ {r} : rpc'[q] = rpc[q]
    BY <1>1, <2>1
  <2>4. \A j \in Inputs : at'[j] # at[j] => at'[j] \in Used /\ at[j] # "opening" /\ at[j] # "queued"
    BY <1>1, <2>1, <2>2 DEF Used
  <2>5. Range(inbox') = Range(inbox) \cap Inputs
    BY <1>2, <2>1
  <2>6. rpc[r] \in Inside
    BY <2>1 DEF Inside
  <2> QED BY <1>1, <1>2, <2>1, <2>3, <2>4, <2>5, <2>6, TakeInv
<1>6. CASE TopCancelled(r)
  <2>1. /\ UNCHANGED <<active, inbox, prompt>> /\ rpc[r] = "top"
        /\ MoveAll(Range(pending[r]), "lost", {}, "lost")
        /\ pending' = [pending EXCEPT ![r] = <<>>]
        /\ rpc' = [rpc EXCEPT ![r] = "ending"]
    BY <1>6 DEF TopCancelled, Goto, slotVars
  <2>2. rpc'[r] \in {"top", "calling", "ending"} /\ \A q \in Runs \ {r} : rpc'[q] = rpc[q]
    BY <1>1, <2>1
  <2>3. \A j \in Inputs : at'[j] # at[j] => at'[j] \in Used /\ at[j] # "opening" /\ at[j] # "queued"
    BY <1>1, <1>3, <2>1 DEF MoveAll, Used
  <2>4. Range(inbox') = Range(inbox) \cap Inputs
    BY <1>2, <2>1
  <2>5. rpc[r] \in Inside
    BY <2>1 DEF Inside
  <2>6. /\ pending' \in [Runs -> Seq(Inputs)]
        /\ \A q \in Runs : Range(pending'[q]) \subseteq Range(pending[q])
    BY <1>1, <2>1 DEF Range
  <2> QED BY <1>1, <1>2, <2>1, <2>2, <2>3, <2>4, <2>5, <2>6, TakeInv
<1>7. ASSUME NEW n \in 0..Cardinality(Inputs), Deliver(r, n) PROVE QInv'
  <2> DEFINE all == pending[r] \o Steers
             S == {all[k] : k \in 1..n}
             T == {all[k] : k \in (n + 1)..Len(all)}
  <2>1. /\ UNCHANGED <<active, prompt>> /\ rpc[r] = "top" /\ n <= Len(all)
        /\ MoveAll(S, "recorded", T, "unsaved") /\ inbox' = Others
        /\ pending' = [pending EXCEPT ![r] = <<>>]
        /\ rpc' = [rpc EXCEPT ![r] = IF n = Len(all) THEN "calling" ELSE "ending"]
    BY <1>7 DEF Deliver, Goto, slotVars
  <2>2. S \cup T = Range(pending[r]) \cup Range(Steers)
    <3>1. /\ Len(all) = Len(pending[r]) + Len(Steers)
          /\ Len(pending[r]) \in Nat /\ Len(Steers) \in Nat /\ n \in Nat
          /\ \A k \in 1..Len(pending[r]) : all[k] = pending[r][k]
          /\ \A k \in 1..Len(Steers) : all[Len(pending[r]) + k] = Steers[k]
      BY <1>1, <1>4
    <3>2. DOMAIN pending[r] = 1..Len(pending[r]) /\ DOMAIN Steers = 1..Len(Steers)
      BY <1>1, <1>4
    <3> HIDE DEF all
    <3>3. S \cup T = {all[k] : k \in 1..Len(all)}
      <4>1. \A k \in 1..Len(all) : k \in 1..n \/ k \in (n + 1)..Len(all)
        BY <3>1
      <4>2. (1..n) \cup ((n + 1)..Len(all)) \subseteq 1..Len(all)
        BY <2>1, <3>1
      <4> QED BY <4>1, <4>2
    <3>4. ASSUME NEW k \in 1..Len(all) PROVE all[k] \in Range(pending[r]) \cup Range(Steers)
      <4>1. CASE k <= Len(pending[r])
        <5>1. k \in 1..Len(pending[r])
          BY <3>1, <4>1
        <5> QED BY <3>1, <3>2, <5>1 DEF Range
      <4>2. CASE k > Len(pending[r])
        <5>1. k - Len(pending[r]) \in 1..Len(Steers) /\ Len(pending[r]) + (k - Len(pending[r])) = k
          BY <3>1, <4>2
        <5>2. all[k] = Steers[k - Len(pending[r])]
          BY <3>1, <5>1
        <5> QED BY <3>2, <5>1, <5>2 DEF Range
      <4> QED BY <3>1, <4>1, <4>2
    <3>5. ASSUME NEW x \in Range(pending[r]) PROVE \E k \in 1..Len(all) : all[k] = x
      <4>1. PICK k \in 1..Len(pending[r]) : x = pending[r][k]
        BY <3>2 DEF Range
      <4>2. k \in 1..Len(all)
        BY <3>1
      <4> QED BY <3>1, <4>1, <4>2
    <3>6. ASSUME NEW x \in Range(Steers) PROVE \E k \in 1..Len(all) : all[k] = x
      <4>1. PICK k \in 1..Len(Steers) : x = Steers[k]
        BY <3>2 DEF Range
      <4>2. Len(pending[r]) + k \in 1..Len(all) /\ all[Len(pending[r]) + k] = x
        BY <3>1, <4>1
      <4> QED BY <4>2
    <3> HIDE DEF S, T
    <3> QED BY <3>3, <3>4, <3>5, <3>6
  <2> HIDE DEF S, T, all
  <2>3. rpc'[r] \in {"top", "calling", "ending"} /\ \A q \in Runs \ {r} : rpc'[q] = rpc[q]
    BY <1>1, <2>1
  <2>4. \A j \in Inputs : IF j \in S \cup T THEN at'[j] \in {"recorded", "unsaved"} ELSE at'[j] = at[j]
    BY <2>1 DEF MoveAll
  <2>5. \A j \in S \cup T : at[j] \in Used \cup {"queued"}
    BY <1>2, <1>3, <1>4, <2>2
  <2>6. \A j \in Inputs : at[j] = "queued" => (j \in S \cup T <=> j \in now)
    BY <1>2, <1>3, <1>4, <2>2 DEF Used
  <2>7. \A j \in Inputs : at'[j] # at[j] => at'[j] \in Used /\ at[j] # "opening"
    BY <2>4, <2>5 DEF Used
  <2>8. \A j \in Inputs : at[j] = "queued" => (at'[j] = "queued" <=> j \in later)
    BY <2>4, <2>6
  <2>9. rpc[r] \in Inside
    BY <2>1 DEF Inside
  <2>10. /\ pending' \in [Runs -> Seq(Inputs)]
         /\ \A q \in Runs : Range(pending'[q]) \subseteq Range(pending[q])
    BY <1>1, <2>1 DEF Range
  <2> HIDE DEF later, now
  <2> QED BY <1>4, <2>1, <2>3, <2>7, <2>8, <2>9, <2>10, TakeInv
<1>8. CASE GateSteers(r)
  <2>1. /\ UNCHANGED <<active, prompt>> /\ rpc[r] \in {"gate", "halt"}
        /\ MoveAll(Range(Steers), "taken", {}, "taken") /\ inbox' = Others
        /\ pending' = [pending EXCEPT ![r] = Steers]
        /\ rpc' = [rpc EXCEPT ![r] = "top"]
    BY <1>8 DEF GateSteers, Goto, slotVars
  <2>2. rpc'[r] \in {"top", "calling", "ending"} /\ \A q \in Runs \ {r} : rpc'[q] = rpc[q]
    BY <1>1, <2>1
  <2>3. \A j \in Inputs : IF j \in Range(Steers) THEN at'[j] = "taken" ELSE at'[j] = at[j]
    BY <2>1 DEF MoveAll
  <2>4. \A j \in Inputs : at[j] = "queued" => (j \in Range(Steers) <=> j \in now)
    BY <1>2, <1>4
  <2>5. \A j \in Inputs : at'[j] # at[j] => at'[j] \in Used /\ at[j] # "opening"
    BY <1>2, <1>4, <2>3 DEF Used
  <2>6. \A j \in Inputs : at[j] = "queued" => (at'[j] = "queued" <=> j \in later)
    BY <2>3, <2>4
  <2>7. rpc[r] \in Inside
    BY <2>1 DEF Inside
  <2>8. /\ pending' \in [Runs -> Seq(Inputs)]
        /\ \A q \in Runs : pending'[q] = IF q = r THEN Steers ELSE pending[q]
    BY <1>1, <1>4, <2>1
  <2>9. \A j \in Range(Steers) : at'[j] \in Used
    BY <1>2, <1>4, <2>3 DEF Used
  <2> HIDE DEF later, now
  <2> QED BY <1>4, <2>1, <2>2, <2>5, <2>6, <2>7, <2>8, <2>9, TakeInv
<1>9. CASE \/ Assemble(r) \/ ReplayCancel(r) \/ CallModel(r) \/ RunTools(r) \/ GateEnd(r)
          \/ Downgrade(r) \/ Announce(r)
  <2>1. UNCHANGED <<at, inbox, prompt, pending, active>>
    BY <1>9 DEF Assemble, ReplayCancel, CallModel, RunTools, GateEnd, Downgrade, Announce,
                inputVars, slotVars
  <2>2. /\ rpc[r] # "reserved" /\ rpc' = [rpc EXCEPT ![r] = rpc'[r]]
        /\ rpc'[r] # "reserved"
        /\ rpc'[r] \in {"boot", "assembled", "prompting"} => rpc[r] \in {"boot", "assembled"}
    <3>1. CASE Assemble(r) \/ ReplayCancel(r)
      BY <1>1, <3>1 DEF Assemble, ReplayCancel, Goto
    <3>2. CASE CallModel(r)
      BY <1>1, <3>2 DEF CallModel, Goto
    <3>3. CASE RunTools(r)
      BY <1>1, <3>3 DEF RunTools, Goto
    <3>4. CASE GateEnd(r)
      BY <1>1, <3>4 DEF GateEnd, Goto
    <3>5. CASE Downgrade(r) \/ Announce(r)
      BY <1>1, <3>5 DEF Downgrade, Announce, Goto
    <3> QED BY <1>9, <3>1, <3>2, <3>3, <3>4, <3>5
  <2>3. \A q \in Runs \ {r} : rpc'[q] = rpc[q]
    BY <1>1, <2>2
  <2> QED BY <2>1, <2>2, <2>3, ElsewhereInv
<1>10. CASE Detach(r) \/ CloseHandle(r)
  <2>1. /\ UNCHANGED <<at, inbox, prompt, pending>> /\ (active' = active \/ lock = None)
        /\ rpc[r] \in {"terminal", "detached"}
        /\ \E l \in {"detached", "ended"} : rpc' = [rpc EXCEPT ![r] = l]
    BY <1>10 DEF Detach, CloseHandle, Free, Goto, inputVars
  <2>2. rpc'[r] \in {"detached", "ended"} /\ \A q \in Runs \ {r} : rpc'[q] = rpc[q]
    BY <1>1, <2>1
  <2> QED BY <2>1, <2>2, ElsewhereInv
<1> QED BY <1>5, <1>6, <1>7, <1>8, <1>9, <1>10 DEF RunStep

(* Every step keeps inbox and places in agreement.                         *)
LEMMA QNextInv == QInv /\ IInv /\ [Next]_vars => QInv'
<1> SUFFICES ASSUME QInv, IInv, [Next]_vars PROVE QInv'
  OBVIOUS
<1>1. ASSUME NEW i \in Inputs,
             \/ \E m \in {"now", "after", "direct"} : Submit(i, m)
             \/ InputStep(i) \/ Claim(i) \/ Drop(i)
      PROVE  QInv'
  BY <1>1, InboxSteps, StartSteps DEF InputStep
<1>2. CASE SweepInbox \/ UNCHANGED vars
  <2>1. UNCHANGED <<at, inbox, prompt, pending, active, rpc>>
    BY <1>2 DEF SweepInbox, vars, slotVars, inputVars, runVars
  <2> QED BY <2>1, ElsewhereInv
<1>3. ASSUME NEW r \in Runs, RunStep(r) \/ RequestCancel(r) \/ CancelState(r) PROVE QInv'
  <2>1. CASE RequestCancel(r) \/ CancelState(r)
    <3>1. UNCHANGED <<at, inbox, prompt, pending, active, rpc>>
      BY <2>1 DEF RequestCancel, CancelState, slotVars, inputVars
    <3> QED BY <3>1, ElsewhereInv
  <2> QED BY <1>3, <2>1, RunSteps
<1>4. ASSUME NEW w \in Readers, Read(w) \/ Delete(w) \/ ReaderStep(w) PROVE QInv'
  <2>1. UNCHANGED <<at, inbox, prompt, pending, active, rpc>>
    BY <1>4 DEF Read, Delete, ReaderStep, ReaderOpens, ReaderDone, inputVars, runVars
  <2> QED BY <2>1, ElsewhereInv
<1> QED BY <1>1, <1>2, <1>3, <1>4 DEF Next

(* The inbox offers each input that waits exactly once, and none that was  *)
(* claimed, dropped, delivered or taken at a gate, whichever threads       *)
(* compete for it.                                                         *)
THEOREM InboxIsExact == Spec => []QueueIsExact
<1>1. Init => QInv
  <2> SUFFICES ASSUME Init PROVE QInv
    OBVIOUS
  <2>1. inbox = <<>> /\ inbox \in Seq(Inputs) /\ Range(inbox) = {} /\ IsInjective(inbox)
    BY DEF Init, Range, IsInjective
  <2>2. \A r \in Runs : pending[r] = <<>> /\ Range(pending[r]) = {} /\ rpc[r] = "unused"
    BY DEF Init, Range
  <2>3. \A i \in Inputs : at[i] = "new"
    BY DEF Init
  <2>4. QueueTyped
    BY <2>1 DEF Init, QueueTyped
  <2> QED BY <2>1, <2>2, <2>3, <2>4 DEF QInv, QueueIsExact, HeldInv, ReservedInv
<1>2. QInv => QueueIsExact
  BY DEF QInv
<1> QED BY <1>1, <1>2, QNextInv, RunInvariance, PTL DEF Spec
============================================================================
