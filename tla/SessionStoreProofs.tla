------------------------- MODULE SessionStoreProofs -------------------------
(***************************************************************************)
(* Proofs about SessionStore: what an open session shows is what a reopen  *)
(* replays, and the file implements DurableLog, for any number of          *)
(* processes and transactions.                                             *)
(***************************************************************************)
EXTENDS SessionStore, SequenceTheorems, TLAPS

(* Only the holder of the sidecar lock has the session open.               *)
LockInv == \A p \in Procs : pc[p] # "down" => flock = p

(* Every line, also of an image about to be published, carries a number    *)
(* that was drawn; the file has a line while commit() is under way.        *)
NumberInv ==
  /\ \A j \in 1..Len(file) : file[j].tx \in 1..(nextTx - 1)
  /\ \A p \in Procs : \A j \in 1..Len(image[p]) : image[p][j].tx \in 1..(nextTx - 1)
  /\ \A p \in Procs : pc[p] \in {"written", "synced"} => Len(file) > 0

(* Every transaction is in the file once, every acknowledged one among the *)
(* lines that survive a power loss.                                        *)
DiskInv ==
  /\ AllGood(file) /\ (\A j \in 1..Len(file) : file[j].utf8)
  /\ \A j, k \in 1..Len(file) : j < k => file[j].tx < file[k].tx
  /\ \A t \in acked : \E j \in 1..synced : file[j].tx = t

(* The file without its last line: what the state shows while commit() is  *)
(* between the write and the apply.                                        *)
Before == SubSeq(file, 1, Len(file) - 1)

(* What a process knows of the file, at each place in open() and commit(). *)
ProcInv(p) ==
  /\ pc[p] = "open" => mem[p] = Replayed(file) /\ torn = "none"
  /\ pc[p] = "short" => mem[p] = Replayed(file)
  /\ pc[p] = "repairing" => mem[p] = Replayed(file) /\ image[p] = file
  /\ pc[p] \in {"written", "synced"} => mem[p] = Replayed(Before) /\ torn = "none"
  /\ pc[p] = "synced" => synced = Len(file)

IInv ==
  /\ TypeOK /\ LockInv /\ NumberInv
  /\ spoiled = {} => DiskInv /\ \A p \in Procs : ProcInv(p)

----------------------------------------------------------------------------
(* Lemmas about the operators of replay.                                   *)

(* A line is a record with these fields.                                   *)
LEMMA LineFields ==
  ASSUME NEW l \in Line
  PROVE  /\ l.tx \in Nat /\ l.seq \in Nat /\ l.width \in 1..2 /\ l.whole \in BOOLEAN
         /\ l.utf8 \in BOOLEAN
         /\ Last(l) \in Int /\ l.seq <= Last(l) /\ Last(l) + 1 \in Nat \ {0}
BY DEF Line, Widths, Last

(* Replaying the file gives one transaction per line, in their order.      *)
LEMMA ReplayedTyped ==
  ASSUME NEW f \in Seq(Line)
  PROVE  /\ Replayed(f) \in [log : Seq(Nat), next : Nat \ {0}]
         /\ Len(Replayed(f).log) = Len(f)
         /\ \A j \in 1..Len(f) : Replayed(f).log[j] = f[j].tx
         /\ f # <<>> => Replayed(f).next = Last(f[Len(f)]) + 1
<1> DEFINE g == [j \in 1..Len(f) |-> f[j].tx]
           n == IF f = <<>> THEN 1 ELSE Last(f[Len(f)]) + 1
<1>1. Replayed(f) = [log |-> g, next |-> n]
  BY DEF Replayed
<1>2. Len(f) \in Nat /\ \A j \in 1..Len(f) : f[j] \in Line /\ f[j].tx \in Nat
  BY LineFields
<1>3. g \in Seq(Nat) /\ Len(g) = Len(f)
  BY <1>2
<1>4. n \in Nat \ {0}
  <2>1. CASE f = <<>>
    BY <2>1
  <2>2. CASE f # <<>>
    <3>1. f[Len(f)] \in Line
      BY <1>2, <2>2
    <3> QED BY <2>2, <3>1, LineFields
  <2> QED BY <2>1, <2>2
<1> HIDE DEF n
<1>5. \A j \in 1..Len(f) : g[j] = f[j].tx
  OBVIOUS
<1>6. f # <<>> => n = Last(f[Len(f)]) + 1
  BY DEF n
<1> HIDE DEF g
<1> QED BY <1>1, <1>3, <1>4, <1>5, <1>6

(* Applying one more transaction, as commit() does, is replaying one line  *)
(* more.                                                                   *)
LEMMA ReplayedAppend ==
  ASSUME NEW f \in Seq(Line), NEW l \in Line
  PROVE  Replayed(Append(f, l)) = [log  |-> Append(Replayed(f).log, l.tx),
                                   next |-> Last(l) + 1]
<1> DEFINE h == Append(f, l)
           a == Replayed(h).log
           b == Append(Replayed(f).log, l.tx)
<1>1. /\ h \in Seq(Line) /\ Len(h) = Len(f) + 1 /\ h[Len(f) + 1] = l /\ h # <<>>
      /\ Len(f) \in Nat /\ \A j \in 1..Len(f) : h[j] = f[j]
  OBVIOUS
<1>2. l.tx \in Nat
  BY LineFields
<1> HIDE DEF h
<1>3. /\ a \in Seq(Nat) /\ Len(a) = Len(f) + 1
      /\ \A j \in 1..(Len(f) + 1) : a[j] = h[j].tx
  BY <1>1, ReplayedTyped
<1>4. /\ Replayed(f).log \in Seq(Nat) /\ Len(Replayed(f).log) = Len(f)
      /\ \A j \in 1..Len(f) : Replayed(f).log[j] = f[j].tx
  BY ReplayedTyped
<1>5. /\ b \in Seq(Nat) /\ Len(b) = Len(f) + 1 /\ b[Len(f) + 1] = l.tx
      /\ \A j \in 1..Len(f) : b[j] = f[j].tx
  BY <1>2, <1>4
<1>6. a = b
  <2> HIDE DEF a, b
  <2>1. ASSUME NEW j \in 1..(Len(f) + 1) PROVE a[j] = b[j]
    <3>1. CASE j = Len(f) + 1
      BY <1>1, <1>3, <1>5, <3>1
    <3>2. CASE j \in 1..Len(f)
      BY <1>1, <1>3, <1>5, <3>2
    <3> QED BY <1>1, <3>1, <3>2
  <2> QED BY <1>1, <1>3, <1>5, <2>1
<1>7. Replayed(h) = [log |-> a, next |-> Last(l) + 1]
  BY <1>1 DEF Replayed
<1> QED BY <1>6, <1>7 DEF h

(* A prefix of a file that can be opened can be opened.                    *)
LEMMA PrefixGood ==
  ASSUME NEW f \in Seq(Line), AllGood(f), NEW m \in 0..Len(f)
  PROVE  /\ SubSeq(f, 1, m) \in Seq(Line) /\ Len(SubSeq(f, 1, m)) = m
         /\ \A j \in 1..m : SubSeq(f, 1, m)[j] = f[j]
         /\ AllGood(SubSeq(f, 1, m))
<1>1. /\ SubSeq(f, 1, m) \in Seq(Line) /\ Len(SubSeq(f, 1, m)) = m
      /\ \A j \in 1..m : SubSeq(f, 1, m)[j] = f[j]
  OBVIOUS
<1> QED BY <1>1 DEF AllGood, Good

(* A line whose seq continues the replayed state can follow.               *)
LEMMA AppendGood ==
  ASSUME NEW f \in Seq(Line), AllGood(f), NEW l \in Line,
         l.whole, l.seq = Replayed(f).next
  PROVE  AllGood(Append(f, l))
<1> DEFINE h == Append(f, l)
           n == Len(f)
<1>1. /\ h \in Seq(Line) /\ Len(h) = n + 1 /\ h[n + 1] = l
      /\ n \in Nat /\ \A j \in 1..n : h[j] = f[j]
      /\ f # <<>> => n > 0
  OBVIOUS
<1>2. \A j \in 1..n : f[j] \in Line /\ f[j].seq \in Nat /\ Last(f[j]) \in Int
                      /\ f[j].seq <= Last(f[j])
  BY LineFields
<1>3. ASSUME NEW k \in 1..n PROVE Last(f[k]) < l.seq
  <2>1. n \in 1..n /\ f # <<>>
    BY <1>1, <1>3
  <2>2. l.seq = Last(f[n]) + 1
    BY <2>1, ReplayedTyped
  <2>3. k < n => Last(f[k]) < f[n].seq
    BY <2>1 DEF AllGood, Good
  <2> QED BY <1>2, <2>1, <2>2, <2>3
<1>4. ASSUME NEW j \in 1..(n + 1) PROVE Good(h, j)
  <2>1. CASE j = n + 1
    BY <1>1, <1>3, <2>1 DEF Good
  <2>2. CASE j \in 1..n
    BY <1>1, <2>2 DEF Good, AllGood
  <2> QED BY <1>1, <2>1, <2>2
<1> QED BY <1>1, <1>4 DEF AllGood

(* A file with a line is the lines before the last one, and the last one.  *)
LEMMA SplitLast ==
  ASSUME NEW f \in Seq(Line), Len(f) > 0
  PROVE  /\ SubSeq(f, 1, Len(f) - 1) \in Seq(Line)
         /\ f[Len(f)] \in Line
         /\ f = Append(SubSeq(f, 1, Len(f) - 1), f[Len(f)])
OBVIOUS

(* What open() keeps is the file or the file without its last line.        *)
LEMMA KeptPrefix ==
  ASSUME NEW f \in Seq(Line)
  PROVE  /\ Kept(f) \in Seq(Line) /\ Len(Kept(f)) <= Len(f)
         /\ \A j \in 1..Len(Kept(f)) : Kept(f)[j] = f[j]
         /\ AllGood(f) => Kept(f) = f
<1>1. ~AllGood(f) => Len(f) > 0
  BY DEF AllGood
<1> QED BY <1>1 DEF Kept
----------------------------------------------------------------------------
(* The inductive invariant.                                                *)

(* A new file is empty and nobody has it open.                             *)
LEMMA InitInv == Init => IInv
<1> SUFFICES ASSUME Init PROVE IInv
  OBVIOUS
<1>1. /\ file = <<>> /\ Len(file) = 0 /\ acked = {} /\ pc = [p \in Procs |-> "down"]
      /\ torn = "none" /\ synced = 0 /\ flock = None /\ nextTx = 1 /\ spoiled = {}
      /\ mem = [p \in Procs |-> Fresh] /\ image = [p \in Procs |-> <<>>]
  BY DEF Init
<1>2. Fresh \in [log : Seq(Nat), next : Nat \ {0}]
  BY DEF Fresh
<1>3. TypeOK
  <2>1. mem \in [Procs -> [log : Seq(Nat), next : Nat \ {0}]]
    BY <1>1, <1>2
  <2>2. image \in [Procs -> Seq(Line)] /\ file \in Seq(Line)
    BY <1>1
  <2>3. acked \subseteq 1..(nextTx - 1) /\ synced \in 0..Len(file) /\ nextTx \in Nat \ {0}
    BY <1>1
  <2>4. pc \in [Procs -> Labels]
    BY <1>1 DEF Labels
  <2> QED BY <1>1, <2>1, <2>2, <2>3, <2>4 DEF TypeOK, Tails
<1>4. LockInv /\ NumberInv
  BY <1>1 DEF LockInv, NumberInv
<1>5. DiskInv
  BY <1>1 DEF DiskInv, AllGood
<1>6. \A p \in Procs : ProcInv(p)
  BY <1>1 DEF ProcInv
<1> QED BY <1>3, <1>4, <1>5, <1>6 DEF IInv

(* A process that has the session open is the only one.                    *)
LEMMA OnlyHolder ==
  ASSUME LockInv, NEW p \in Procs, NEW q \in Procs, pc[p] # "down", q # p
  PROVE  pc[q] = "down"
BY DEF LockInv

(* A step of p that leaves the others down keeps what they know.           *)
LEMMA OthersDown ==
  ASSUME TypeOK, LockInv, NEW p \in Procs, NEW l \in Labels, Goto(p, l),
         pc[p] # "down" \/ flock = None
  PROVE  /\ pc' \in [Procs -> Labels] /\ pc'[p] = l
         /\ \A q \in Procs \ {p} : pc'[q] = "down" /\ pc[q] = "down" /\ ProcInv(q)'
<1>1. pc \in [Procs -> Labels] /\ pc' = [pc EXCEPT ![p] = l]
  BY DEF TypeOK, Goto
<1>2. \A q \in Procs \ {p} : pc'[q] = "down" /\ pc[q] = "down"
  BY <1>1, ProcsAssumption DEF LockInv
<1> QED BY <1>1, <1>2 DEF ProcInv
(* Steps that leave the disk and the numbers alone and end a handle.       *)
LEMMA EndStep ==
  ASSUME IInv, NEW p \in Procs, RepairFails(p) \/ Close(p) \/ Crash(p)
  PROVE  IInv'
<1>1. /\ UNCHANGED <<file, torn, synced, mem, image, nextTx, acked, spoiled>>
      /\ Goto(p, "down") /\ pc[p] # "down" /\ flock' \in {None, flock}
  BY DEF RepairFails, Close, Crash, diskVars
<1>2. TypeOK /\ LockInv /\ NumberInv
  BY DEF IInv
<1>3. "down" \in Labels
  BY DEF Labels
<1>4. /\ pc' \in [Procs -> Labels] /\ pc'[p] = "down"
      /\ \A q \in Procs \ {p} : pc'[q] = "down" /\ ProcInv(q)'
  BY <1>1, <1>2, <1>3, OthersDown
<1>5. TypeOK'
  BY <1>1, <1>2, <1>4 DEF TypeOK
<1>6. LockInv' /\ NumberInv'
  BY <1>1, <1>2, <1>4 DEF LockInv, NumberInv
<1>7. ProcInv(p)'
  BY <1>4 DEF ProcInv
<1>8. DiskInv => DiskInv'
  BY <1>1 DEF DiskInv, AllGood, Good
<1> QED BY <1>1, <1>4, <1>5, <1>6, <1>7, <1>8 DEF IInv

(* Steps of a holder that change only its place, the fragment, the fsynced *)
(* length and the faults.                                                  *)
LEMMA PlaceStep ==
  ASSUME IInv, NEW p \in Procs,
         \/ ShortWrite(p) \/ Rollback(p) \/ RollbackFails(p)
         \/ Fsync(p) \/ FsyncFails(p)
  PROVE  IInv'
<1>1. /\ UNCHANGED <<file, flock, mem, image, nextTx, acked>>
      /\ torn' \in Tails /\ synced' \in {synced, Len(file)}
      /\ spoiled' \in SUBSET {"rollback", "fsync"}
      /\ spoiled' = {} => spoiled = {}
      /\ pc[p] # "down"
      /\ pc'[p] \in Labels \ {"down"} /\ pc' = [pc EXCEPT ![p] = pc'[p]]
      /\ pc'[p] \in {"written", "synced"} => pc[p] = "written"
  <2> USE DEF Labels, IInv, TypeOK, Goto
  <2>1. CASE ShortWrite(p)
    BY <2>1 DEF ShortWrite, Tails
  <2>2. CASE Rollback(p)
    BY <2>2 DEF Rollback, Tails
  <2>3. CASE RollbackFails(p)
    BY <2>3 DEF RollbackFails, diskVars
  <2>4. CASE Fsync(p)
    BY <2>4 DEF Fsync
  <2>5. CASE FsyncFails(p)
    BY <2>5 DEF FsyncFails, diskVars
  <2> QED BY <2>1, <2>2, <2>3, <2>4, <2>5
<1>2. TypeOK /\ LockInv /\ NumberInv
  BY DEF IInv
<1>3. Goto(p, pc'[p])
  BY <1>1 DEF Goto
<1>4. /\ pc' \in [Procs -> Labels]
      /\ \A q \in Procs \ {p} : pc'[q] = "down" /\ ProcInv(q)'
  BY <1>1, <1>2, <1>3, OthersDown
<1>5. synced \in 0..Len(file) /\ synced' \in 0..Len(file) /\ synced <= synced'
      /\ synced \in Nat /\ synced' \in Nat
  BY <1>1, <1>2 DEF TypeOK
<1>6. TypeOK'
  BY <1>1, <1>2, <1>4, <1>5 DEF TypeOK
<1>7. LockInv'
  BY <1>1, <1>2, <1>4 DEF LockInv
<1>8. NumberInv'
  BY <1>1, <1>2, <1>4 DEF NumberInv
<1>9. ASSUME spoiled' = {} PROVE DiskInv' /\ ProcInv(p)'
  <2>1. DiskInv /\ ProcInv(p)
    BY <1>1, <1>9 DEF IInv
  <2>2. DiskInv'
    <3>1. \A t \in acked : \E j \in 1..synced' : file[j].tx = t
      BY <2>1, <1>5 DEF DiskInv
    <3> QED BY <1>1, <2>1, <3>1 DEF DiskInv, AllGood, Good
  <2>3. ProcInv(p)'
    <3>1. CASE ShortWrite(p)
      BY <2>1, <3>1, <1>4, <1>2 DEF ShortWrite, ProcInv, Goto, TypeOK
    <3>2. CASE Rollback(p)
      BY <2>1, <3>2, <1>4, <1>2 DEF Rollback, ProcInv, Goto, TypeOK
    <3>3. CASE Fsync(p)
      BY <2>1, <3>3, <1>4, <1>2 DEF Fsync, ProcInv, Goto, TypeOK, Before
    <3>4. CASE RollbackFails(p) \/ FsyncFails(p)
      BY <1>9, <3>4 DEF RollbackFails, FsyncFails
    <3> QED BY <3>1, <3>2, <3>3, <3>4
  <2> QED BY <2>2, <2>3
<1> QED BY <1>4, <1>6, <1>7, <1>8, <1>9 DEF IInv

(* open(): replay, and the decision to repair.                             *)
LEMMA OpenStep ==
  ASSUME IInv, NEW p \in Procs, Open(p)
  PROVE  IInv'
<1> DEFINE k == Kept(file)
           l == IF torn # "none" \/ k # file THEN "repairing" ELSE "open"
<1>1. /\ UNCHANGED <<file, torn, synced, nextTx, acked, spoiled>>
      /\ pc[p] = "down" /\ flock = None /\ flock' = p
      /\ mem' = [mem EXCEPT ![p] = Replayed(k)]
      /\ image' = [image EXCEPT ![p] = k]
      /\ Goto(p, l)
  BY DEF Open, diskVars
<1>2. TypeOK /\ LockInv /\ NumberInv
  BY DEF IInv
<1>3. file \in Seq(Line)
  BY <1>2 DEF TypeOK
<1>4. /\ k \in Seq(Line) /\ Len(k) <= Len(file) /\ Len(k) \in Nat /\ Len(file) \in Nat
      /\ \A j \in 1..Len(k) : k[j] = file[j]
      /\ AllGood(file) => k = file
      /\ Replayed(k) \in [log : Seq(Nat), next : Nat \ {0}]
  BY <1>3, KeptPrefix, ReplayedTyped
<1>5. l \in Labels \ {"down"} /\ l \notin {"written", "synced", "short"}
  BY DEF Labels
<1> HIDE DEF k
<1>6. /\ pc' \in [Procs -> Labels] /\ pc'[p] = l
      /\ \A q \in Procs \ {p} : pc'[q] = "down" /\ ProcInv(q)'
  BY <1>1, <1>2, <1>5, OthersDown
<1>7. TypeOK'
  BY <1>1, <1>2, <1>4, <1>6 DEF TypeOK
<1>8. LockInv'
  BY <1>1, <1>6 DEF LockInv
<1>9. NumberInv'
  <2>1. \A j \in 1..Len(k) : k[j].tx \in 1..(nextTx - 1)
    BY <1>2, <1>4 DEF NumberInv
  <2>2. \A q \in Procs : pc'[q] \notin {"written", "synced"}
    BY <1>5, <1>6
  <2>3. \A q \in Procs : image'[q] = k \/ image'[q] = image[q]
    BY <1>1, <1>2 DEF TypeOK
  <2> QED BY <1>1, <1>2, <2>1, <2>2, <2>3 DEF NumberInv
<1>10. ASSUME spoiled' = {} PROVE DiskInv' /\ ProcInv(p)'
  <2>1. DiskInv
    BY <1>1, <1>10 DEF IInv
  <2>2. DiskInv' /\ k = file
    BY <1>1, <1>4, <2>1 DEF DiskInv, AllGood, Good
  <2>3. mem'[p] = Replayed(file) /\ image'[p] = file
    BY <1>1, <1>2, <2>2 DEF TypeOK
  <2> QED BY <1>1, <1>5, <1>6, <2>2, <2>3 DEF ProcInv
<1> QED BY <1>6, <1>7, <1>8, <1>9, <1>10 DEF IInv
(* _publish_atomically(): the image replaces the file.                     *)
LEMMA RepairStep ==
  ASSUME IInv, NEW p \in Procs, Repair(p)
  PROVE  IInv' /\ (spoiled = {} => file' = file)
<1>1. /\ UNCHANGED <<flock, mem, image, nextTx, acked, spoiled>>
      /\ pc[p] = "repairing" /\ Goto(p, "open")
      /\ file' = image[p] /\ torn' = "none" /\ synced' = Len(image[p])
  BY DEF Repair
<1>2. TypeOK /\ LockInv /\ NumberInv
  BY DEF IInv
<1>3. "open" \in Labels
  BY DEF Labels
<1>4. /\ pc' \in [Procs -> Labels] /\ pc'[p] = "open"
      /\ \A q \in Procs \ {p} : pc'[q] = "down" /\ ProcInv(q)'
  BY <1>1, <1>2, <1>3, OthersDown
<1>5. image[p] \in Seq(Line) /\ Len(image[p]) \in Nat
  BY <1>2 DEF TypeOK
<1>6. TypeOK'
  <2>1. file' \in Seq(Line) /\ synced' \in 0..Len(file')
    <3>1. Len(image[p]) \in 0..Len(image[p])
      BY <1>5
    <3> QED BY <1>1, <1>5, <3>1
  <2> QED BY <1>1, <1>2, <1>4, <2>1 DEF TypeOK, Tails
<1>7. LockInv' /\ NumberInv'
  <2>1. LockInv'
    BY <1>1, <1>2, <1>4 DEF LockInv
  <2>2. \A q \in Procs : pc'[q] \notin {"written", "synced"}
    BY <1>4
  <2>3. \A j \in 1..Len(file') : file'[j].tx \in 1..(nextTx - 1)
    BY <1>1, <1>2 DEF NumberInv
  <2> QED BY <1>1, <1>2, <2>1, <2>2, <2>3 DEF NumberInv
<1>8. ASSUME spoiled = {} PROVE DiskInv' /\ ProcInv(p)' /\ file' = file
  <2>1. DiskInv /\ ProcInv(p)
    BY <1>8 DEF IInv
  <2>2. file' = file /\ mem[p] = Replayed(file)
    BY <1>1, <2>1 DEF ProcInv
  <2>3. \A t \in acked : \E j \in 1..Len(file) : file[j].tx = t
    BY <1>2, <2>1 DEF DiskInv, TypeOK
  <2>4. DiskInv'
    BY <1>1, <2>1, <2>2, <2>3 DEF DiskInv, AllGood, Good
  <2>5. ProcInv(p)'
    BY <1>1, <1>4, <2>2 DEF ProcInv
  <2> QED BY <2>2, <2>4, <2>5
<1> QED BY <1>1, <1>4, <1>6, <1>7, <1>8 DEF IInv

(* os.write(): the line whose seq continues the state of its writer.       *)
LEMMA WriteStep ==
  ASSUME IInv, NEW p \in Procs, NEW w \in Widths, Write(p, w)
  PROVE  /\ IInv'
         /\ \E l \in Line : l.tx = nextTx /\ file' = Append(file, l)
         /\ nextTx \in 1..TxBound /\ acked' = acked
<1> DEFINE l == [tx |-> nextTx, seq |-> mem[p].next, width |-> w, whole |-> torn = "none",
                   utf8 |-> torn # "cut"]
           n == Len(file)
<1>1. /\ UNCHANGED <<synced, flock, mem, image, acked, spoiled>>
      /\ pc[p] = "open" /\ Goto(p, "written")
      /\ file' = Append(file, l) /\ torn' = "none" /\ nextTx' = nextTx + 1
      /\ nextTx <= TxBound
  BY DEF Write
<1>2. TypeOK /\ LockInv /\ NumberInv
  BY DEF IInv
<1>3. "written" \in Labels
  BY DEF Labels
<1>4. /\ pc' \in [Procs -> Labels] /\ pc'[p] = "written"
      /\ \A q \in Procs \ {p} : pc'[q] = "down" /\ ProcInv(q)'
  BY <1>1, <1>2, <1>3, OthersDown
<1>5. /\ file \in Seq(Line) /\ n \in Nat /\ synced \in 0..n /\ nextTx \in Nat \ {0}
      /\ mem[p].next \in Nat \ {0}
  BY <1>2 DEF TypeOK
<1>6. /\ l \in Line /\ l.tx = nextTx /\ l.seq = mem[p].next
      /\ l.whole = (torn = "none") /\ l.utf8 = (torn # "cut")
  BY <1>2, <1>5 DEF Line, TypeOK
<1> HIDE DEF l
<1>7. /\ file' \in Seq(Line) /\ Len(file') = n + 1 /\ file'[n + 1] = l
      /\ \A j \in 1..n : file'[j] = file[j]
      /\ SubSeq(file', 1, Len(file') - 1) = file
  BY <1>1, <1>5, <1>6
<1>8. TypeOK'
  <2>1. synced' \in 0..Len(file') /\ nextTx' \in Nat \ {0}
    BY <1>1, <1>5, <1>7
  <2>2. acked' \subseteq 1..(nextTx' - 1)
    BY <1>1, <1>2, <1>5 DEF TypeOK
  <2> QED BY <1>1, <1>2, <1>4, <1>7, <2>1, <2>2 DEF TypeOK, Tails
<1>9. LockInv'
  BY <1>1, <1>2, <1>4 DEF LockInv
<1>10. NumberInv'
  <2>1. \A j \in 1..Len(file') : file'[j].tx \in 1..(nextTx' - 1)
    <3> TAKE j \in 1..Len(file')
    <3>1. CASE j = n + 1
      BY <1>1, <1>5, <1>6, <1>7, <3>1
    <3>2. CASE j \in 1..n
      BY <1>1, <1>2, <1>5, <1>7, <3>2 DEF NumberInv
    <3> QED BY <1>5, <1>7, <3>1, <3>2
  <2>2. \A q \in Procs : \A j \in 1..Len(image[q]) : image[q][j].tx \in 1..(nextTx' - 1)
    BY <1>1, <1>2, <1>5 DEF NumberInv
  <2>3. Len(file') > 0
    BY <1>5, <1>7
  <2> QED BY <1>1, <2>1, <2>2, <2>3 DEF NumberInv
<1>11. ASSUME spoiled = {} PROVE DiskInv' /\ ProcInv(p)'
  <2>1. DiskInv /\ mem[p] = Replayed(file) /\ torn = "none"
    BY <1>1, <1>11 DEF IInv, ProcInv
  <2>2. AllGood(file')
    BY <1>1, <1>5, <1>6, <2>1, AppendGood DEF DiskInv
  <2>3. \A j, k \in 1..Len(file') : j < k => file'[j].tx < file'[k].tx
    <3> TAKE j, k \in 1..Len(file')
    <3> HAVE j < k
    <3>1. CASE k = n + 1
      <4>1. j \in 1..n /\ file[j].tx \in 1..(nextTx - 1)
        BY <1>2, <1>5, <1>7, <3>1 DEF NumberInv
      <4> QED BY <1>5, <1>6, <1>7, <3>1, <4>1
    <3>2. CASE k \in 1..n
      BY <1>5, <1>7, <2>1, <3>2 DEF DiskInv
    <3> QED BY <1>5, <1>7, <3>1, <3>2
  <2>4. \A t \in acked : \E j \in 1..synced : file'[j].tx = t
    BY <1>5, <1>7, <2>1 DEF DiskInv
  <2>5. \A j \in 1..Len(file') : file'[j].utf8
    <3>1. l.utf8
      BY <1>6, <2>1
    <3>2. \A j \in 1..n : file[j].utf8
      BY <2>1 DEF DiskInv
    <3>3. \A j \in 1..Len(file') : j = n + 1 \/ j \in 1..n
      BY <1>5, <1>7
    <3> QED BY <1>7, <3>1, <3>2, <3>3
  <2>6. DiskInv'
    BY <1>1, <2>2, <2>3, <2>4, <2>5 DEF DiskInv
  <2>7. ProcInv(p)'
    BY <1>1, <1>4, <1>7, <2>1 DEF ProcInv, Before
  <2> QED BY <2>6, <2>7
<1>12. nextTx \in 1..TxBound
  BY <1>1, <1>5, TxAssumption
<1> QED BY <1>1, <1>4, <1>6, <1>8, <1>9, <1>10, <1>11, <1>12 DEF IInv

(* The fsynced line is applied to the state and acknowledged.              *)
LEMMA ApplyStep ==
  ASSUME IInv, NEW p \in Procs, Apply(p)
  PROVE  /\ IInv' /\ file' = file
         /\ Len(file) \in Nat \ {0} /\ acked' = acked \cup {file[Len(file)].tx}
<1> DEFINE n == Len(file)
           line == file[n]
<1>1. /\ UNCHANGED <<file, torn, synced, flock, image, nextTx, spoiled>>
      /\ pc[p] = "synced" /\ Goto(p, "open")
      /\ mem' = [mem EXCEPT ![p] = [log  |-> Append(mem[p].log, line.tx),
                                    next |-> Last(line) + 1]]
      /\ acked' = acked \cup {line.tx}
  BY DEF Apply, diskVars
<1>2. TypeOK /\ LockInv /\ NumberInv
  BY DEF IInv
<1>3. "open" \in Labels
  BY DEF Labels
<1>4. /\ pc' \in [Procs -> Labels] /\ pc'[p] = "open"
      /\ \A q \in Procs \ {p} : pc'[q] = "down" /\ ProcInv(q)'
  BY <1>1, <1>2, <1>3, OthersDown
<1>5. /\ file \in Seq(Line) /\ n \in Nat /\ n > 0
      /\ nextTx \in Nat \ {0} /\ line.tx \in 1..(nextTx - 1)
      /\ mem \in [Procs -> [log : Seq(Nat), next : Nat \ {0}]]
  BY <1>1, <1>2 DEF TypeOK, NumberInv
<1>6. /\ Before \in Seq(Line) /\ line \in Line /\ file = Append(Before, line)
      /\ Last(line) + 1 \in Nat \ {0} /\ line.tx \in Nat
  BY <1>5, SplitLast, LineFields DEF Before
<1>7. TypeOK'
  <2>1. mem' \in [Procs -> [log : Seq(Nat), next : Nat \ {0}]]
    <3>1. Append(mem[p].log, line.tx) \in Seq(Nat)
      BY <1>5, <1>6
    <3> QED BY <1>1, <1>5, <1>6, <3>1
  <2>2. acked' \subseteq 1..(nextTx - 1)
    BY <1>1, <1>2, <1>5 DEF TypeOK
  <2> QED BY <1>1, <1>2, <1>4, <2>1, <2>2 DEF TypeOK
<1>8. LockInv' /\ NumberInv'
  BY <1>1, <1>2, <1>4 DEF LockInv, NumberInv
<1>9. ASSUME spoiled = {} PROVE DiskInv' /\ ProcInv(p)'
  <2>1. DiskInv /\ mem[p] = Replayed(Before) /\ torn = "none" /\ synced = n
    BY <1>1, <1>9 DEF IInv, ProcInv
  <2>2. \A t \in acked' : \E j \in 1..synced : file[j].tx = t
    <3>1. \A t \in acked : \E j \in 1..synced : file[j].tx = t
      BY <2>1 DEF DiskInv
    <3>2. n \in 1..synced
      BY <1>5, <2>1
    <3> QED BY <1>1, <3>1, <3>2
  <2>3. DiskInv'
    BY <1>1, <2>1, <2>2 DEF DiskInv, AllGood, Good
  <2>4. mem'[p] = Replayed(file)
    <3>1. Replayed(Append(Before, line)) = [log  |-> Append(Replayed(Before).log, line.tx),
                                            next |-> Last(line) + 1]
      BY <1>6, ReplayedAppend
    <3> HIDE DEF line
    <3> QED BY <1>1, <1>5, <1>6, <2>1, <3>1
  <2>5. ProcInv(p)'
    BY <1>1, <1>4, <2>1, <2>4 DEF ProcInv
  <2> QED BY <2>3, <2>5
<1> QED BY <1>1, <1>4, <1>5, <1>7, <1>8, <1>9 DEF IInv

(* A power loss keeps the fsynced lines and a prefix of the others.        *)
LEMMA PowerLossStep ==
  ASSUME IInv, PowerLoss
  PROVE  /\ IInv' /\ acked' = acked /\ spoiled' = spoiled
         /\ \E m \in synced..Len(file) : file' = SubSeq(file, 1, m)
<1>1. /\ UNCHANGED <<synced, mem, image, nextTx, acked, spoiled>>
      /\ flock' = None /\ pc' = [p \in Procs |-> "down"]
      /\ \E m \in synced..Len(file) :
           /\ file' = SubSeq(file, 1, m)
           /\ torn' \in IF m < Len(file) \/ torn # "none" THEN Tails ELSE {"none"}
  BY DEF PowerLoss
<1>2. PICK m \in synced..Len(file) : file' = SubSeq(file, 1, m) /\ torn' \in Tails
  BY <1>1 DEF Tails
<1>3. TypeOK /\ LockInv /\ NumberInv
  BY DEF IInv
<1>4. file \in Seq(Line) /\ synced \in 0..Len(file) /\ Len(file) \in Nat /\ m \in 0..Len(file)
  BY <1>3 DEF TypeOK
<1>5. /\ file' \in Seq(Line) /\ Len(file') = m
      /\ \A j \in 1..m : file'[j] = file[j]
  BY <1>2, <1>4
<1>6. TypeOK'
  <2>1. synced' \in 0..Len(file')
    BY <1>1, <1>4, <1>5
  <2>2. pc' \in [Procs -> Labels]
    BY <1>1 DEF Labels
  <2> QED BY <1>1, <1>2, <1>3, <1>5, <2>1, <2>2 DEF TypeOK
<1>7. LockInv' /\ NumberInv'
  BY <1>1, <1>3, <1>4, <1>5 DEF LockInv, NumberInv
<1>8. ASSUME spoiled = {} PROVE DiskInv'
  <2>1. DiskInv
    BY <1>8 DEF IInv
  <2>2. AllGood(file')
    BY <1>2, <1>4, <2>1, PrefixGood DEF DiskInv
  <2>3. \A j, k \in 1..Len(file') : j < k => file'[j].tx < file'[k].tx
    BY <1>4, <1>5, <2>1 DEF DiskInv
  <2>4. \A t \in acked : \E j \in 1..synced : file'[j].tx = t
    BY <1>4, <1>5, <2>1 DEF DiskInv
  <2>5. \A j \in 1..Len(file') : file'[j].utf8
    BY <1>4, <1>5, <2>1 DEF DiskInv
  <2> QED BY <1>1, <2>2, <2>3, <2>4, <2>5 DEF DiskInv
<1>9. \A p \in Procs : ProcInv(p)'
  BY <1>1 DEF ProcInv
<1> QED BY <1>1, <1>2, <1>6, <1>7, <1>8, <1>9 DEF IInv
(* The invariant is inductive.                                             *)
LEMMA NextInv == IInv /\ [Next]_vars => IInv'
<1> SUFFICES ASSUME IInv, [Next]_vars PROVE IInv'
  OBVIOUS
<1>1. ASSUME NEW p \in Procs, Step(p) PROVE IInv'
  BY <1>1, EndStep, PlaceStep, OpenStep, RepairStep, WriteStep, ApplyStep DEF Step
<1>2. CASE PowerLoss
  BY <1>2, PowerLossStep
<1>3. CASE UNCHANGED vars
  <2>1. /\ UNCHANGED <<file, torn, synced, flock, pc, mem, image>>
        /\ UNCHANGED <<nextTx, acked, spoiled>>
    BY <1>3 DEF vars, diskVars, procVars
  <2>2. TypeOK' /\ LockInv' /\ NumberInv'
    BY <2>1 DEF IInv, TypeOK, LockInv, NumberInv
  <2>3. DiskInv => DiskInv'
    BY <2>1 DEF DiskInv, AllGood, Good
  <2>4. \A p \in Procs : ProcInv(p) => ProcInv(p)'
    BY <2>1 DEF ProcInv, Before
  <2> QED BY <2>1, <2>2, <2>3, <2>4 DEF IInv
<1> QED BY <1>1, <1>2, <1>3 DEF Next

(* The disk, the lock and what each process knows of the file stay in step *)
(* through open, repair, commit, close, crash and power loss.              *)
THEOREM StoreInvariance == Spec => []IInv
<1> QED BY InitInv, NextInv, PTL DEF Spec

(* File, processes and bookkeeping keep their types, faults included.      *)
THEOREM StoreTypeCorrect == Spec => []TypeOK
<1>1. IInv => TypeOK
  BY DEF IInv
<1> QED BY <1>1, StoreInvariance, PTL

(* commit() and open() keep the state equal to what a reopen would replay, *)
(* and the file readable, for any number of processes and transactions.    *)
THEOREM OpenShowsTheFile == Spec => []MemoryIsFile
<1>1. IInv => MemoryIsFile
  BY DEF IInv, MemoryIsFile, Opens, Decodes, Readable, Kept, DiskInv, ProcInv
<1> QED BY <1>1, StoreInvariance, PTL

----------------------------------------------------------------------------
(* Refinement: the lines of the file, replayed, are the log.               *)

(* The replayed log of a prefix is the prefix of the replayed log.         *)
LEMMA ReplayedPrefix ==
  ASSUME NEW f \in Seq(Line), NEW m \in 0..Len(f)
  PROVE  Replayed(SubSeq(f, 1, m)).log = SubSeq(Replayed(f).log, 1, m)
<1> DEFINE h == SubSeq(f, 1, m)
           a == Replayed(h).log
           b == SubSeq(Replayed(f).log, 1, m)
           c == Replayed(f).log
<1>1. h \in Seq(Line) /\ Len(h) = m /\ \A j \in 1..m : h[j] = f[j]
  OBVIOUS
<1>2. c \in Seq(Nat) /\ Len(c) = Len(f) /\ \A j \in 1..Len(f) : c[j] = f[j].tx
  BY ReplayedTyped
<1> HIDE DEF h, c
<1>3. b \in Seq(Nat) /\ Len(b) = m /\ \A j \in 1..m : b[j] = f[j].tx
  BY <1>2 DEF c
<1>4. a \in Seq(Nat) /\ Len(a) = m /\ \A j \in 1..m : a[j] = f[j].tx
  BY <1>1, ReplayedTyped
<1> HIDE DEF a, b
<1>5. \A j \in 1..m : a[j] = b[j]
  BY <1>3, <1>4
<1>6. a = b
  BY <1>3, <1>4, <1>5, SeqEqual
<1> QED BY <1>6 DEF a, b, h, c

(* Every step of the store is a step of the log or leaves it alone, unless *)
(* it belongs to a behaviour in which a rollback or an fsync has failed.   *)
LEMMA LogStep ==
  ASSUME IInv, [Next]_vars
  PROVE  [spoiled' # {} \/ Log!Next]_<<file, acked>>
<1> DEFINE log == Replayed(file).log
           n == Len(file)
<1> SUFFICES ASSUME spoiled' = {}, ~UNCHANGED <<file, acked>>
             PROVE  Log!Next
  OBVIOUS
<1>1. /\ file \in Seq(Line) /\ n \in Nat /\ synced \in 0..n
      /\ acked \subseteq 1..(nextTx - 1) /\ NumberInv /\ nextTx \in Nat
  BY DEF IInv, TypeOK
<1>2. log \in Seq(Nat) /\ Len(log) = n /\ \A j \in 1..n : log[j] = file[j].tx
  BY <1>1, ReplayedTyped
<1>3. ASSUME NEW p \in Procs, NEW w \in Widths, Write(p, w) PROVE Log!Next
  <2>1. PICK l \in Line : l.tx = nextTx /\ file' = Append(file, l)
    BY <1>3, WriteStep
  <2>2. nextTx \in 1..TxBound /\ acked' = acked
    BY <1>3, WriteStep
  <2>3. Replayed(file').log = Append(log, nextTx)
    BY <1>1, <2>1, ReplayedAppend
  <2>4. nextTx \notin {log[i] : i \in 1..Len(log)}
    BY <1>1, <1>2 DEF NumberInv
  <2>5. Log!Appears(nextTx)
    BY <2>2, <2>3, <2>4 DEF Log!Appears
  <2> QED BY <2>2, <2>5 DEF Log!Next
<1>4. ASSUME NEW p \in Procs, Apply(p) PROVE Log!Next
  <2>1. n \in Nat \ {0} /\ acked' = acked \cup {file[n].tx} /\ file' = file
    BY <1>4, ApplyStep
  <2>2. n \in 1..Len(log) /\ log[n] = file[n].tx
    BY <1>2, <2>1
  <2>3. Log!Acknowledge(n)
    BY <2>1, <2>2 DEF Log!Acknowledge
  <2> QED BY <2>2, <2>3 DEF Log!Next
<1>5. CASE PowerLoss
  <2>1. acked' = acked /\ spoiled = {}
    BY <1>5, PowerLossStep
  <2>2. PICK m \in synced..n : file' = SubSeq(file, 1, m)
    BY <1>5, PowerLossStep
  <2>3. m \in 0..n /\ m # n
    BY <1>1, <2>1, <2>2
  <2>4. Replayed(file').log = SubSeq(log, 1, m)
    BY <1>1, <2>2, <2>3, ReplayedPrefix
  <2>5. ASSUME NEW i \in (m + 1)..n PROVE file[i].tx \notin acked
    <3>1. DiskInv /\ i \in 1..n /\ i > synced
      BY <1>1, <2>1, <2>3 DEF IInv
    <3>2. \A j \in 1..synced : j \in 1..n /\ j < i
      BY <1>1, <3>1
    <3>3. \A j \in 1..synced : file[j].tx < file[i].tx /\ file[j].tx \in Nat /\ file[i].tx \in Nat
      BY <1>1, <3>1, <3>2 DEF DiskInv, NumberInv
    <3>4. \A j \in 1..synced : file[j].tx # file[i].tx
      BY <3>3
    <3> QED BY <3>1, <3>4 DEF DiskInv
  <2>6. \A i \in (m + 1)..Len(log) : log[i] \notin acked
    BY <1>1, <1>2, <2>3, <2>5
  <2>7. m + 1 \in 1..Len(log) /\ (m + 1) - 1 = m
    BY <1>1, <1>2, <2>3
  <2>8. Log!LoseTail((m + 1) - 1)
    BY <2>1, <2>4, <2>6, <2>7 DEF Log!LoseTail
  <2> QED BY <2>7, <2>8 DEF Log!Next
<1>6. ASSUME NEW p \in Procs, Repair(p) PROVE FALSE
  <2>1. spoiled = {} /\ acked' = acked
    BY <1>6 DEF Repair
  <2> QED BY <1>6, <2>1, RepairStep
<1>7. ASSUME NEW p \in Procs,
             \/ Open(p) \/ RepairFails(p) \/ ShortWrite(p) \/ Rollback(p) \/ RollbackFails(p)
             \/ Fsync(p) \/ FsyncFails(p) \/ Close(p) \/ Crash(p)
      PROVE  FALSE
  BY <1>7 DEF Open, RepairFails, ShortWrite, Rollback, RollbackFails, Fsync, FsyncFails,
              Close, Crash, diskVars
<1>8. ~UNCHANGED vars
  BY DEF vars, diskVars
<1> QED BY <1>3, <1>4, <1>5, <1>6, <1>7, <1>8 DEF Next, Step

(* The session file implements DurableLog: nothing acknowledged is lost or *)
(* moves, whatever crashes, power losses, short writes and repairs come in *)
(* between, until an fsync or a rollback fails.                            *)
THEOREM FileImplementsLog == Spec => ImplementsLog
<1>1. Init => Log!Init
  <2> SUFFICES ASSUME Init PROVE Log!Init
    OBVIOUS
  <2>1. file = <<>> /\ Len(file) = 0 /\ acked = {} /\ file \in Seq(Line)
    BY EmptySeq DEF Init
  <2>2. Replayed(file).log \in Seq(Nat) /\ Len(Replayed(file).log) = 0
    BY <2>1, ReplayedTyped
  <2>3. Replayed(file).log = <<>>
    BY <2>2, EmptySeq
  <2> QED BY <2>1, <2>3 DEF Log!Init
<1>2. IInv /\ [Next]_vars => [spoiled' # {} \/ Log!Next]_<<file, acked>>
  BY LogStep
<1> QED BY <1>1, <1>2, StoreInvariance, PTL DEF Spec, ImplementsLog
============================================================================
