--------------------------- MODULE SessionStore ---------------------------
(***************************************************************************)
(* One session file and the processes that open it: commit, close, crash,  *)
(* power loss, replay and tail repair (avid/session/jsonl.py, with the     *)
(* sequence numbers of avid/session/state.py).                             *)
(*                                                                         *)
(* A line of the file is one transaction. Entry ids are fresh and the      *)
(* parent of an entry is one the same process replayed or committed, so of *)
(* _validate() only parsing and the order of the seqs can fail on replay.  *)
(* Inside one process the mutation line lets one commit through at a time. *)
(***************************************************************************)
EXTENDS Integers, Sequences, FiniteSets

CONSTANTS
  Procs,    \* processes that may open the session
  TxBound,  \* model bound: transactions ever started
  None

ASSUME ProcsAssumption == None \notin Procs
ASSUME TxAssumption == TxBound \in Nat

VARIABLES
  file,     \* complete lines of the file, without the header
  torn,     \* the fragment without newline that follows them, if any
  synced,   \* lines that survive a power loss
  flock,    \* the process that holds the sidecar lock
  pc,       \* where each process stands in open() or commit()
  mem,      \* SessionState: the transactions applied, and _next_seq
  image,    \* lines open() is about to publish
  nextTx,   \* number of the next transaction
  acked,    \* transactions whose commit() returned
  spoiled   \* faults after which a line is on disk that commit() disowned

diskVars == <<file, torn, synced>>
procVars == <<flock, pc, mem, image>>
vars     == <<diskVars, procVars, nextTx, acked, spoiled>>

(* Lines are JSON written with ensure_ascii=False, so a fragment may end   *)
(* in text or be cut inside a character.                                   *)
Tails == {"none", "text", "cut"}

(* A transaction takes one seq per write. A line that is not `whole` does  *)
(* not parse, and one that is not `utf8` does not decode.                  *)
Widths == 1..2
Line   == [tx : Nat, seq : Nat, width : Widths, whole : BOOLEAN, utf8 : BOOLEAN]
Fresh  == [log |-> <<>>, next |-> 1]

Init ==
  /\ file = <<>> /\ torn = "none" /\ synced = 0
  /\ flock = None
  /\ pc = [p \in Procs |-> "down"]
  /\ mem = [p \in Procs |-> Fresh]
  /\ image = [p \in Procs |-> <<>>]
  /\ nextTx = 1
  /\ acked = {}
  /\ spoiled = {}

Goto(p, l) == pc' = [pc EXCEPT ![p] = l]

----------------------------------------------------------------------------
(* Replay.                                                                 *)

Last(line) == line.seq + line.width - 1

(* _validate() after the lines before j were applied.                      *)
Good(f, j) == f[j].whole /\ \A k \in 1..(j - 1) : Last(f[k]) < f[j].seq

AllGood(f) == \A j \in 1..Len(f) : Good(f, j)

(* What open() keeps: everything, or everything but a bad last line.       *)
Kept(f) == IF AllGood(f) THEN f ELSE SubSeq(f, 1, Len(f) - 1)

Readable(f) == AllGood(Kept(f))

Replayed(f) ==
  [log  |-> [j \in 1..Len(f) |-> f[j].tx],
   next |-> IF f = <<>> THEN 1 ELSE Last(f[Len(f)]) + 1]

(* read_text() decodes the whole file before it is split into lines, the   *)
(* fragment included, and only an OSError is expected of it.               *)
Decodes(f, t) == t # "cut" /\ \A j \in 1..Len(f) : f[j].utf8

Opens == Decodes(file, torn) /\ Readable(file)

(* JsonlStorage.open() under the lock, up to the repair. A file that does  *)
(* not decode and a bad line in the middle raise and change nothing.       *)
Open(p) ==
  /\ pc[p] = "down" /\ flock = None
  /\ Opens
  /\ flock' = p
  /\ mem' = [mem EXCEPT ![p] = Replayed(Kept(file))]
  /\ image' = [image EXCEPT ![p] = Kept(file)]
  /\ Goto(p, IF torn # "none" \/ Kept(file) # file THEN "repairing" ELSE "open")
  /\ UNCHANGED <<diskVars, nextTx, acked, spoiled>>

(* _publish_atomically(): a new file, fsynced, renamed over the old one.   *)
Repair(p) ==
  /\ pc[p] = "repairing"
  /\ file' = image[p] /\ torn' = "none" /\ synced' = Len(image[p])
  /\ Goto(p, "open")
  /\ UNCHANGED <<flock, mem, image, nextTx, acked, spoiled>>

(* It fails: the old file stays and open() raises.                         *)
RepairFails(p) ==
  /\ pc[p] = "repairing"
  /\ flock' = None
  /\ Goto(p, "down")
  /\ UNCHANGED <<diskVars, mem, image, nextTx, acked, spoiled>>

----------------------------------------------------------------------------
(* JsonlStorage.commit() and _fsync_write().                               *)

(* os.write() appends the whole line, to a fragment if there is one.       *)
Write(p, w) ==
  /\ pc[p] = "open"
  /\ nextTx <= TxBound
  /\ file' = Append(file, [tx |-> nextTx, seq |-> mem[p].next, width |-> w,
                           whole |-> torn = "none", utf8 |-> torn # "cut"])
  /\ torn' = "none"
  /\ nextTx' = nextTx + 1
  /\ Goto(p, "written")
  /\ UNCHANGED <<synced, flock, mem, image, acked, spoiled>>

(* A short write leaves a fragment until it is truncated away.             *)
ShortWrite(p) ==
  /\ pc[p] = "open"
  /\ nextTx <= TxBound
  /\ torn = "none"
  /\ torn' \in {"text", "cut"}
  /\ Goto(p, "short")
  /\ UNCHANGED <<file, synced, flock, mem, image, nextTx, acked, spoiled>>

RollbackForgotten(p) ==
  /\ pc[p] = "short"
  /\ Goto(p, "open")
  /\ UNCHANGED <<diskVars, flock, mem, image, nextTx, acked, spoiled>>

Rollback(p) ==
  /\ pc[p] = "short"
  /\ torn' = "none"
  /\ Goto(p, "open")
  /\ UNCHANGED <<file, synced, flock, mem, image, nextTx, acked, spoiled>>

(* ftruncate() failed too: the half line stays, with a warning.            *)
RollbackFails(p) ==
  /\ pc[p] = "short"
  /\ spoiled' = spoiled \cup {"rollback"}
  /\ Goto(p, "open")
  /\ UNCHANGED <<diskVars, flock, mem, image, nextTx, acked>>

FsyncSkipped(p) ==
  /\ pc[p] = "written"
  /\ Goto(p, "synced")
  /\ UNCHANGED <<diskVars, flock, mem, image, nextTx, acked, spoiled>>

Fsync(p) ==
  /\ pc[p] = "written"
  /\ synced' = Len(file)
  /\ Goto(p, "synced")
  /\ UNCHANGED <<file, torn, flock, mem, image, nextTx, acked, spoiled>>

(* fsync() failed: commit() raises, and the line stays in the file.        *)
FsyncFails(p) ==
  /\ pc[p] = "written"
  /\ spoiled' = spoiled \cup {"fsync"}
  /\ Goto(p, "open")
  /\ UNCHANGED <<diskVars, flock, mem, image, nextTx, acked>>

(* The state is changed only after the fsync, and commit() returns.        *)
Apply(p) ==
  LET line == file[Len(file)]
  IN  /\ pc[p] = "synced"
      /\ mem' = [mem EXCEPT ![p] = [log  |-> Append(@.log, line.tx),
                                    next |-> Last(line) + 1]]
      /\ acked' = acked \cup {line.tx}
      /\ Goto(p, "open")
      /\ UNCHANGED <<diskVars, flock, image, nextTx, spoiled>>

----------------------------------------------------------------------------
(* The end of a handle.                                                    *)

(* StorageBackedSession.close() waits for the running mutation, then the   *)
(* storage gives the lock back. (JsonlSessionRepo.close() does not wait.)  *)
Close(p) ==
  /\ pc[p] = "open"
  /\ flock' = None
  /\ Goto(p, "down")
  /\ UNCHANGED <<diskVars, mem, image, nextTx, acked, spoiled>>

(* The process dies; what it wrote stays in the file.                      *)
Crash(p) ==
  /\ pc[p] # "down"
  /\ flock' = IF flock = p THEN None ELSE flock
  /\ Goto(p, "down")
  /\ UNCHANGED <<diskVars, mem, image, nextTx, acked, spoiled>>

(* The machine dies; of what was not synced a prefix is left, and maybe a  *)
(* fragment.                                                               *)
PowerLoss ==
  /\ \E p \in Procs : pc[p] # "down"
  /\ \E m \in synced..Len(file) :
       /\ file' = SubSeq(file, 1, m)
       /\ torn' \in IF m < Len(file) \/ torn # "none" THEN Tails ELSE {"none"}
  /\ flock' = None
  /\ pc' = [p \in Procs |-> "down"]
  /\ UNCHANGED <<synced, mem, image, nextTx, acked, spoiled>>

Step(p) ==
  \/ Open(p) \/ Repair(p) \/ RepairFails(p)
  \/ (\E w \in Widths : Write(p, w)) \/ ShortWrite(p)
  \/ Rollback(p) \/ RollbackFails(p) \/ Fsync(p) \/ FsyncFails(p) \/ Apply(p)
  \/ Close(p) \/ Crash(p)

Next == PowerLoss \/ \E p \in Procs : Step(p)

Spec == Init /\ [][Next]_vars

----------------------------------------------------------------------------
Labels == {"down", "open", "repairing", "short", "written", "synced"}

(* Type invariant of the file, of the processes and of the bookkeeping.    *)
TypeOK ==
  /\ file \in Seq(Line) /\ torn \in Tails /\ synced \in 0..Len(file)
  /\ flock \in Procs \cup {None} /\ pc \in [Procs -> Labels]
  /\ mem \in [Procs -> [log : Seq(Nat), next : Nat \ {0}]]
  /\ image \in [Procs -> Seq(Line)]
  /\ nextTx \in Nat \ {0} /\ acked \subseteq 1..(nextTx - 1)
  /\ spoiled \subseteq {"rollback", "fsync"}

(* Durability: the file implements the log its callers count on. Lines     *)
(* appear at its end, commit() acknowledges them, and crash, power loss,   *)
(* short write, replay and failed or finished repair, in any order, take   *)
(* away an unacknowledged tail and nothing else, as long as no fsync and   *)
(* no rollback fails. After a failed fsync the line stays and the next     *)
(* commit uses its seq again: of the two, the repair of the next open      *)
(* keeps the one nobody was told of.                                       *)
Log == INSTANCE DurableLog WITH Tx <- 1..TxBound, log <- Replayed(file).log

ImplementsLog == Log!Init /\ [][spoiled' # {} \/ Log!Next]_<<file, acked>>

(* Until a rollback or an fsync fails, every complete line is valid and    *)
(* follows the ones before it, so open() repairs a torn end and lets a     *)
(* session in: only a fragment cut inside a character, which read_text()   *)
(* refuses and nothing removes, keeps everyone out. What an open session   *)
(* shows between its commits is what a reopen would replay.                *)
MemoryIsFile ==
  spoiled = {} =>
    /\ AllGood(file) /\ (torn # "cut" => Opens)
    /\ \A p \in Procs : pc[p] = "open" => mem[p] = Replayed(file) /\ torn = "none"
============================================================================
