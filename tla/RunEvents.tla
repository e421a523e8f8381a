----------------------------- MODULE RunEvents -----------------------------
(***************************************************************************)
(* The event stream of one run: RunRecord's bounded replay buffer and the  *)
(* subscribers of RunRegistry (avid/services/runs.py).                     *)
(*                                                                         *)
(* Every `with record.condition` block of the code is one action; what the *)
(* code does between two such blocks (a yield, a second lookup of the      *)
(* status) is an action of its own, so that every interleaving of the run  *)
(* thread, the sweeping thread and the subscribers is a behaviour. The     *)
(* status is "running" until _finish() and terminal ever after; the late   *)
(* approval waiter that resets it is in Approvals.                         *)
(***************************************************************************)
EXTENDS Integers, Sequences, FiniteSets

CONSTANTS
  SyncSubs,      \* clients served by subscribe()
  AsyncSubs,     \* clients served by subscribe_async()
  BufferSize,    \* buffer_size: durable events kept for replay; 0 = no limit
  MaxEvents,     \* max_events: events of any kind kept
  DurableBound,  \* model bound: last seq the run thread itself assigns
  LossyBound,    \* model bound: deltas and transient events emitted
  ConnectBound   \* model bound: connections the clients open together

ASSUME BufferAssumption == BufferSize \in Nat /\ MaxEvents \in Nat /\ MaxEvents > 0
ASSUME BoundAssumption ==
  DurableBound \in Nat /\ LossyBound \in Nat /\ ConnectBound \in Nat
ASSUME SubsAssumption == SyncSubs \cap AsyncSubs = {}

Subs == SyncSubs \cup AsyncSubs

VARIABLES
  buf,        \* the buffer fields of RunRecord
  status,     \* RunRecord.status: "running" or "terminal"
  retained,   \* the record is still in RunRegistry._runs
  lossy,      \* lossy events emitted so far (bounds the model)
  termSeq,    \* seq of the terminal event, 0 before it
  pc,         \* where each subscriber's generator stands
  after,      \* the cursor it was opened with
  delivered,  \* local `delivered`
  index,      \* local `index`, an absolute buffer index
  queue,      \* events copied out of the buffer, still to be yielded
  connects,   \* connections opened so far (bounds the model)
  cursor,     \* client: highest durable seq received
  seen,       \* client: seqs received, or announced as missing by a resync
  overtaken,  \* the replay was overtaken by an eviction after its gap check
  lagged      \* a follower was moved past durable events it never got

bufVars  == <<buf, status, retained, lossy, termSeq>>
genVars  == <<pc, after, delivered, index, queue>>
cliVars  == <<connects, cursor, seen, overtaken, lagged>>
vars     == <<bufVars, genVars, cliVars>>

----------------------------------------------------------------------------
(* The buffer. `events` is indexed by absolute index: its domain is        *)
(* dropped+1 .. tail, and absolute_index() is `tail`. Deltas and transient *)
(* events have no seq (0) and are told apart by nothing below: "lossy".    *)

DurableTypes == {"durable", "terminal", "resync"}
EventTypes   == DurableTypes \cup {"lossy"}
Event        == [type : EventTypes, seq : Nat]

EmptyBuffer ==
  [events |-> [i \in 1..0 |-> [type |-> "lossy", seq |-> 0]],
   dropped |-> 0, tail |-> 0, durableIndex |-> <<>>,
   evictedUpto |-> 0, nextSeq |-> 1]

Larger(a, b) == IF a > b THEN a ELSE b

Appended(b, type) ==
  LET at      == b.tail + 1
      durable == type \in DurableTypes
      ev      == [type |-> type, seq |-> IF durable THEN b.nextSeq ELSE 0]
  IN  [events       |-> [i \in (b.dropped + 1)..at |->
                           IF i = at THEN ev ELSE b.events[i]],
       dropped      |-> b.dropped,
       tail         |-> at,
       durableIndex |-> IF durable THEN Append(b.durableIndex, at)
                                   ELSE b.durableIndex,
       evictedUpto  |-> b.evictedUpto,
       nextSeq      |-> IF durable THEN b.nextSeq + 1 ELSE b.nextSeq]

(* Drop the head up to absolute index `cut`; `n` durable events go with it *)
(* and the last of them carries the highest evicted seq.                   *)
Evict(b, cut, n) ==
  [events       |-> [i \in (cut + 1)..b.tail |-> b.events[i]],
   dropped      |-> cut,
   tail         |-> b.tail,
   durableIndex |-> SubSeq(b.durableIndex, n + 1, Len(b.durableIndex)),
   evictedUpto  |-> IF n = 0 THEN b.evictedUpto
                    ELSE Larger(b.evictedUpto, b.events[b.durableIndex[n]].seq),
   nextSeq      |-> b.nextSeq]

EvictUntold(b, cut, n) == [Evict(b, cut, n) EXCEPT !.evictedUpto = b.evictedUpto]

TrimDurableTwice(b) ==
  LET overflow == Len(b.durableIndex) - BufferSize
  IN  IF BufferSize > 0 /\ overflow > 0
      THEN [Evict(b, b.durableIndex[overflow], overflow)
              EXCEPT !.dropped = b.durableIndex[overflow] + overflow]
      ELSE b

TrimDurable(b) ==
  LET overflow == Len(b.durableIndex) - BufferSize
  IN  IF BufferSize > 0 /\ overflow > 0
      THEN Evict(b, b.durableIndex[overflow], overflow)
      ELSE b

(* How many durable events lie at or before absolute index `cut`.          *)
DurableUpTo(b, cut) ==
  CHOOSE n \in 0..Len(b.durableIndex) :
    /\ \A i \in 1..n : b.durableIndex[i] <= cut
    /\ \A i \in (n + 1)..Len(b.durableIndex) : b.durableIndex[i] > cut

TrimTotalUntold(b) ==
  LET head == b.tail - MaxEvents
  IN  IF head > b.dropped THEN EvictUntold(b, head, DurableUpTo(b, head)) ELSE b

TrimTotal(b) ==
  LET head == b.tail - MaxEvents
  IN  IF head > b.dropped THEN Evict(b, head, DurableUpTo(b, head)) ELSE b

(* events and durable_index are cleared, dropped and evicted_upto are not. *)
Cleared(b) ==
  [events       |-> [i \in (b.dropped + 1)..b.dropped |-> b.events[i]],
   dropped      |-> b.dropped,
   tail         |-> b.dropped,
   durableIndex |-> <<>>,
   evictedUpto  |-> b.evictedUpto,
   nextSeq      |-> b.nextSeq]

Emit(b, type) == TrimTotal(TrimDurable(Appended(b, type)))

----------------------------------------------------------------------------
Init ==
  /\ buf = EmptyBuffer
  /\ status = "running"
  /\ retained = TRUE
  /\ lossy = 0
  /\ termSeq = 0
  /\ pc = [s \in Subs |-> "off"]
  /\ after = [s \in Subs |-> 0]
  /\ delivered = [s \in Subs |-> 0]
  /\ index = [s \in Subs |-> 0]
  /\ queue = [s \in Subs |-> <<>>]
  /\ connects = 0
  /\ cursor = [s \in Subs |-> 0]
  /\ seen = [s \in Subs |-> {}]
  /\ overtaken = [s \in Subs |-> FALSE]
  /\ lagged = [s \in Subs |-> FALSE]

----------------------------------------------------------------------------
(* The run thread and the threads that end or reclaim the run.             *)

(* emit() of a durable type. It has no guard on the status: an approval    *)
(* waiter that outlives its run still emits.                               *)
EmitDurable ==
  /\ buf.nextSeq <= DurableBound
  /\ buf' = Emit(buf, "durable")
  /\ UNCHANGED <<status, retained, lossy, termSeq, genVars, cliVars>>

(* emit() of run_status and emit_delta().                                  *)
EmitLossy ==
  /\ lossy < LossyBound
  /\ lossy' = lossy + 1
  /\ buf' = Emit(buf, "lossy")
  /\ UNCHANGED <<status, retained, termSeq, genVars, cliVars>>

(* _finish(): status and terminal event in one critical section.           *)
Finish ==
  /\ status = "running"
  /\ status' = "terminal"
  /\ buf' = Emit(buf, "terminal")
  /\ termSeq' = buf.nextSeq
  /\ UNCHANGED <<retained, lossy, genVars, cliVars>>

(* _sweep() reclaims a terminal record.                                    *)
Sweep ==
  /\ status = "terminal"
  /\ retained
  /\ retained' = FALSE
  /\ buf' = Cleared(buf)
  /\ UNCHANGED <<status, lossy, termSeq, genVars, cliVars>>

----------------------------------------------------------------------------
(* A subscriber, one connection at a time.                                 *)

Goto(s, l) == pc' = [pc EXCEPT ![s] = l]

(* The request: get() raises RunNotFound once the record was swept.        *)
Subscribe(s) ==
  /\ pc[s] = "off"
  /\ retained
  /\ connects < ConnectBound
  /\ connects' = connects + 1
  /\ after' = [after EXCEPT ![s] = cursor[s]]
  /\ delivered' = [delivered EXCEPT ![s] = cursor[s]]
  /\ queue' = [queue EXCEPT ![s] = <<>>]
  /\ Goto(s, "check")
  /\ UNCHANGED <<bufVars, index, cursor, seen, overtaken, lagged>>

(* _replay_from(), first critical section: _has_gap().                     *)
HasGap(s) ==
  /\ pc[s] = "check"
  /\ Goto(s, IF buf.evictedUpto > after[s] THEN "gap" ELSE "replay")
  /\ UNCHANGED <<bufVars, after, delivered, index, queue, cliVars>>

(* The durable events buffered at absolute indices above i.                *)
BufferedSeqs(b, i) ==
  {b.events[k].seq : k \in {j \in (i + 1)..b.tail : b.events[j].seq > 0}}

Window(b, i) == [k \in 1..(b.tail - i) |-> b.events[i + k]]

Top(S, floor) == IF \E x \in S : x > floor
                 THEN CHOOSE x \in S : \A y \in S : y <= x
                 ELSE floor

(* _replay_from(), second critical section: copy what the buffer holds.    *)
(* Events at or before `after` stay in the copy and are skipped by Yield.  *)
Replay(s) ==
  /\ pc[s] = "replay"
  /\ queue' = [queue EXCEPT ![s] = Window(buf, buf.dropped)]
  /\ index' = [index EXCEPT ![s] = buf.tail]
  /\ delivered' = [delivered EXCEPT
                     ![s] = Top(BufferedSeqs(buf, buf.dropped), after[s])]
  /\ overtaken' = [overtaken EXCEPT ![s] = @ \/ buf.evictedUpto > after[s]]
  /\ Goto(s, IF buf.tail = buf.dropped THEN "snap" ELSE "replaying")
  /\ UNCHANGED <<bufVars, after, connects, cursor, seen, lagged>>

(* A resync (replay or follow): emit it ...                                *)
EmitResync(s) ==
  /\ pc[s] = "gap"
  /\ buf' = Emit(buf, "resync")
  /\ delivered' = [delivered EXCEPT ![s] = Larger(@, buf.nextSeq)]
  /\ Goto(s, "mark")
  /\ UNCHANGED <<status, retained, lossy, termSeq, after, index, queue, cliVars>>

(* ... then, in a critical section of its own, follow from the tail.       *)
MarkTail(s) ==
  /\ pc[s] = "mark"
  /\ index' = [index EXCEPT ![s] = buf.tail]
  /\ queue' = [queue EXCEPT ![s] = <<[type |-> "resync", seq |-> delivered[s]]>>]
  /\ Goto(s, "replaying")
  /\ UNCHANGED <<bufVars, after, delivered, cliVars>>

(* The client takes event e. A resync tells it to rebuild from the         *)
(* session, which holds everything emitted up to now; that it does so is   *)
(* the client's part of the protocol and not modelled here.                *)
Receive(s, e) ==
  /\ cursor' = [cursor EXCEPT ![s] = e.seq]
  /\ seen' = [seen EXCEPT ![s] = @ \cup
                (IF e.type = "resync" THEN 1..(buf.nextSeq - 1) ELSE {e.seq})]
  /\ overtaken' = [overtaken EXCEPT ![s] = @ /\ e.type # "resync"]
  /\ lagged' = [lagged EXCEPT ![s] = @ /\ e.type # "resync"]
  /\ UNCHANGED connects

YieldReplayAll(s) ==
  /\ pc[s] = "replaying"
  /\ queue' = [queue EXCEPT ![s] = Tail(@)]
  /\ Goto(s, IF Len(queue[s]) = 1 THEN "snap" ELSE "replaying")
  /\ IF Head(queue[s]).seq > 0
     THEN Receive(s, Head(queue[s]))
     ELSE UNCHANGED cliVars
  /\ UNCHANGED <<bufVars, after, delivered, index>>

(* One yield of the replayed events (or of the resync).                    *)
YieldReplay(s) ==
  /\ pc[s] = "replaying"
  /\ queue' = [queue EXCEPT ![s] = Tail(@)]
  /\ Goto(s, IF Len(queue[s]) = 1 THEN "snap" ELSE "replaying")
  /\ IF Head(queue[s]).seq > after[s]
     THEN Receive(s, Head(queue[s]))
     ELSE UNCHANGED cliVars
  /\ UNCHANGED <<bufVars, after, delivered, index>>

(* One yield while following: lossy events may be dropped, an event at or  *)
(* before `delivered` is a duplicate, a terminal event ends the generator. *)
YieldFollow(s) ==
  LET e == Head(queue[s])
      fresh == e.seq > delivered[s]
      over == fresh /\ e.type = "terminal"
  IN  /\ pc[s] = "following"
      /\ queue' = [queue EXCEPT ![s] = IF over THEN <<>> ELSE Tail(@)]
      /\ Goto(s, IF over THEN "done"
                 ELSE IF Len(queue[s]) = 1 THEN "snap" ELSE "following")
      /\ IF fresh
         THEN /\ delivered' = [delivered EXCEPT ![s] = e.seq]
              /\ Receive(s, e)
         ELSE UNCHANGED <<delivered, cliVars>>
      /\ UNCHANGED <<bufVars, after, index>>

(* _follow_snapshot_raw(): a gap, the fresh events, or nothing.            *)
Stale(s)  == buf.evictedUpto > delivered[s]
Behind(s) == index[s] < buf.dropped

FreshSkipsFirst(s) ==
  IF Stale(s) \/ Behind(s) THEN <<>> ELSE Window(buf, index[s] + 1)

Fresh(s)  == IF Stale(s) \/ Behind(s) THEN <<>> ELSE Window(buf, index[s])

FollowSnapshot(s, ifNothing) ==
  /\ index' = [index EXCEPT ![s] = IF Stale(s) THEN @ ELSE buf.tail]
  /\ queue' = [queue EXCEPT ![s] = Fresh(s)]
  /\ lagged' = [lagged EXCEPT ![s] =
       @ \/ /\ ~Stale(s) /\ Behind(s)
            /\ \E n \in BufferedSeqs(buf, buf.dropped) : n > delivered[s]]
  /\ Goto(s, IF Stale(s) THEN "gap"
             ELSE IF Fresh(s) # <<>> THEN "following" ELSE ifNothing)
  /\ UNCHANGED <<bufVars, after, delivered, connects, cursor, seen, overtaken>>

(* Top of the follow loop; the status is read in the same critical section *)
SnapIgnoresStatus(s) ==
  /\ pc[s] = "snap"
  /\ FollowSnapshot(s, "wait")

SnapStatusFirst(s) ==
  /\ pc[s] = "snap"
  /\ IF status = "terminal"
     THEN Goto(s, "done") /\ UNCHANGED <<bufVars, after, delivered, index, queue, cliVars>>
     ELSE FollowSnapshot(s, "wait")

Snap(s) ==
  /\ pc[s] = "snap"
  /\ FollowSnapshot(s, IF status = "terminal" THEN "done" ELSE "wait")

(* A waiting subscriber wakes up, notified or timed out. subscribe() takes *)
(* a second snapshot before it releases the lock; subscribe_async() loops. *)
WakeSync(s) ==
  /\ s \in SyncSubs
  /\ pc[s] = "wait"
  /\ FollowSnapshot(s, "idle")

WakeAsyncAtEnd(s) ==
  /\ s \in AsyncSubs
  /\ pc[s] = "wait"
  /\ status = "terminal"
  /\ Goto(s, "snap")
  /\ UNCHANGED <<bufVars, after, delivered, index, queue, cliVars>>

WakeAsync(s) ==
  /\ s \in AsyncSubs
  /\ pc[s] = "wait"
  /\ Goto(s, "snap")
  /\ UNCHANGED <<bufVars, after, delivered, index, queue, cliVars>>

(* subscribe() after an empty second snapshot reads record.terminal again, *)
(* now without the lock: return, or yield a heartbeat.                     *)
Heartbeat(s) ==
  /\ pc[s] = "idle"
  /\ Goto(s, IF status = "terminal" THEN "done" ELSE "snap")
  /\ UNCHANGED <<bufVars, after, delivered, index, queue, cliVars>>

(* The connection drops; the generator is closed where it is suspended and *)
(* its locals are gone.                                                    *)
Disconnect(s) ==
  /\ pc[s] \in {"replaying", "following", "wait", "snap"}
  /\ Goto(s, "off")
  /\ after' = [after EXCEPT ![s] = 0]
  /\ delivered' = [delivered EXCEPT ![s] = 0]
  /\ index' = [index EXCEPT ![s] = 0]
  /\ queue' = [queue EXCEPT ![s] = <<>>]
  /\ UNCHANGED <<bufVars, cliVars>>

Step(s) ==
  \/ HasGap(s) \/ Replay(s) \/ EmitResync(s) \/ MarkTail(s)
  \/ YieldReplay(s) \/ YieldFollow(s)
  \/ Snap(s) \/ WakeSync(s) \/ WakeAsync(s) \/ Heartbeat(s)

Next ==
  \/ EmitDurable \/ EmitLossy \/ Finish \/ Sweep
  \/ \E s \in Subs : Subscribe(s) \/ Step(s) \/ Disconnect(s)

(* A generator that is being consumed keeps running; nobody has to emit,   *)
(* to finish the run, to sweep, to connect or to disconnect.               *)
Spec == Init /\ [][Next]_vars /\ \A s \in Subs : WF_vars(Step(s))

----------------------------------------------------------------------------
Labels == {"off", "check", "gap", "mark", "replay", "replaying", "snap",
           "following", "wait", "idle", "done"}

BufTyped(b) ==
  /\ b.dropped \in Nat /\ b.tail \in Nat /\ b.dropped <= b.tail
  /\ b.events \in [(b.dropped + 1)..b.tail -> Event]
  /\ b.durableIndex \in Seq(Nat)
  /\ b.evictedUpto \in Nat /\ b.nextSeq \in Nat /\ b.nextSeq > 0

GenTyped ==
  /\ pc \in [Subs -> Labels]
  /\ after \in [Subs -> Nat] /\ delivered \in [Subs -> Nat]
  /\ index \in [Subs -> Nat] /\ queue \in [Subs -> Seq(Event)]

ClientTyped ==
  /\ connects \in Nat
  /\ cursor \in [Subs -> Nat] /\ seen \in [Subs -> SUBSET Nat]
  /\ overtaken \in [Subs -> BOOLEAN] /\ lagged \in [Subs -> BOOLEAN]

(* Type invariant of the record, of the generators' locals and of the      *)
(* client's ghost state: the buffer's window, its index and its counters   *)
(* stay well formed under every interleaving of emit, _trim and _sweep.    *)
TypeOK ==
  /\ BufTyped(buf)
  /\ status \in {"running", "terminal"} /\ retained \in BOOLEAN
  /\ lossy \in Nat /\ termSeq \in Nat
  /\ GenTyped
  /\ ClientTyped

(* The incremental bookkeeping of emit() and _trim() is exact: while the   *)
(* record is retained, durable_index lists the buffered durable events in  *)
(* order, their seqs are evicted_upto+1 .. next_seq-1 without a hole, and  *)
(* neither limit is exceeded.                                              *)
BufferExact ==
  retained =>
    /\ Len(buf.durableIndex) = buf.nextSeq - 1 - buf.evictedUpto
    /\ \A i \in 1..Len(buf.durableIndex) :
         /\ buf.durableIndex[i] \in (buf.dropped + 1)..buf.tail
         /\ buf.events[buf.durableIndex[i]].seq = buf.evictedUpto + i
    /\ \A k \in (buf.dropped + 1)..buf.tail :
         buf.events[k].seq > 0 =>
           \E i \in 1..Len(buf.durableIndex) : buf.durableIndex[i] = k
    /\ BufferSize > 0 => Len(buf.durableIndex) <= BufferSize
    /\ buf.tail - buf.dropped <= MaxEvents

Undisturbed(s) == ~overtaken[s] /\ ~lagged[s]

(* I5, where the code keeps it: a client that was neither overtaken by an  *)
(* eviction during its replay nor moved on while behind the buffer has     *)
(* received, or been told to rebuild past, every durable event up to its   *)
(* cursor.                                                                 *)
NoSilentGap ==
  retained => \A s \in Subs : Undisturbed(s) => 1..cursor[s] \subseteq seen[s]

(* I5 as the comments and tests state it (runs.py:678, 725 and             *)
(* tests/test_run_events.py:481): no client ever skips a durable event     *)
(* without a resync.                                                       *)
NeverServedQuietly ==
  retained => \A s \in Subs : 1..cursor[s] \subseteq seen[s]

(* A subscriber's stream that ended by itself told the client that the run *)
(* is over, by the terminal event or by a resync after it: the reason      *)
(* _finish() changes status and appends the event in one critical section. *)
EndsInformed(S) ==
  retained => \A s \in S :
    pc[s] = "done" /\ Undisturbed(s) => termSeq \in seen[s]

EndsInformedAsync == EndsInformed(AsyncSubs)

(* Across reconnects and resyncs a client's cursor only moves forward: no  *)
(* delivery sets it back, and nothing a client learns is older than what   *)
(* it has already got.                                                     *)
CursorAdvances ==
  [][\A s \in Subs : cursor'[s] # cursor[s] \/ seen'[s] # seen[s]
                       => cursor'[s] > cursor[s]]_vars

(* No wakeup is lost for good: an event emitted while a client is          *)
(* connected reaches it, or it leaves, or its stream ends, or it is moved  *)
(* on (see NoSilentGap), or the record is reclaimed.                       *)
EventuallyDelivered ==
  \A s \in Subs : \A n \in 1..DurableBound :
    (pc[s] \notin {"off", "done"} /\ n < buf.nextSeq) ~>
      (\/ n \in seen[s] \/ pc[s] \in {"off", "done"}
       \/ ~Undisturbed(s) \/ ~retained)

(* Once the run is terminal every open stream comes to an end.             *)
StreamsEnd ==
  \A s \in Subs : (status = "terminal") ~> (pc[s] \in {"off", "done"})
============================================================================
