-------------------------- MODULE RunEventsProofs --------------------------
(***************************************************************************)
(* Proofs about RunEvents for every buffer size, every number of clients   *)
(* and every model bound.                                                  *)
(***************************************************************************)
EXTENDS RunEvents, TLAPS

(* The buffer between two critical sections. Unlike BufferExact it also    *)
(* holds after a sweep, when evicted_upto may be too small.                *)
BufListed(b) ==
  LET d == b.durableIndex IN
  /\ \A i \in 1..Len(d) : d[i] \in (b.dropped + 1)..b.tail
  /\ \A i, j \in 1..Len(d) : i < j => d[i] < d[j]
  /\ \A k \in (b.dropped + 1)..b.tail :
       b.events[k].seq > 0 => \E i \in 1..Len(d) : d[i] = k

BufSeqs(b) ==
  LET d == b.durableIndex IN
  /\ \A i \in 1..Len(d) : b.events[d[i]].seq = b.nextSeq - 1 - Len(d) + i
  /\ b.evictedUpto + Len(d) <= b.nextSeq - 1

BufInv(b) == BufTyped(b) /\ BufListed(b) /\ BufSeqs(b)

BufLimits(b) ==
  /\ BufferSize > 0 => Len(b.durableIndex) <= BufferSize
  /\ b.tail - b.dropped <= MaxEvents

(* Nothing evicted went unrecorded.                                        *)
BufFull(b) == b.nextSeq - 1 <= b.evictedUpto + Len(b.durableIndex)

(* Arithmetic of positions: seq and index that grow together keep their    *)
(* difference.                                                             *)
LEMMA ShiftBoth ==
  ASSUME NEW x \in Int, NEW y \in Int
  PROVE  \A i \in Int : x - 1 - y + i = (x + 1) - 1 - (y + 1) + i
OBVIOUS

(* A number below a buffered seq is below the next seq too.                *)
LEMMA BelowSeq ==
  ASSUME NEW x \in Nat, NEW y \in Nat, x < y
  PROVE  \A n \in 1..(x - 1) : n \in Nat /\ n > 0 /\ n < y /\ n < x /\ x > 0
OBVIOUS

----------------------------------------------------------------------------
(* Appending keeps durable_index and the seqs in step (emit, emit_delta).  *)
LEMMA AppendedInv ==
  ASSUME NEW b, BufInv(b), NEW type \in EventTypes
  PROVE  LET c == Appended(b, type) IN
         /\ BufInv(c)
         /\ BufFull(b) => BufFull(c)
         /\ c.tail = b.tail + 1 /\ c.dropped = b.dropped
         /\ c.evictedUpto = b.evictedUpto
         /\ c.nextSeq = IF type \in DurableTypes THEN b.nextSeq + 1 ELSE b.nextSeq
         /\ Len(c.durableIndex) <= Len(b.durableIndex) + 1
         /\ \A k \in (b.dropped + 1)..b.tail : c.events[k] = b.events[k]
         /\ c.events[c.tail].type = type
         /\ type \in DurableTypes => c.events[c.tail].seq = b.nextSeq
<1> DEFINE c == Appended(b, type)
           d == b.durableIndex
           at == b.tail + 1
<1>1. /\ c.tail = at /\ c.dropped = b.dropped /\ c.evictedUpto = b.evictedUpto
      /\ c.nextSeq = IF type \in DurableTypes THEN b.nextSeq + 1 ELSE b.nextSeq
      /\ c.durableIndex = IF type \in DurableTypes THEN Append(d, at) ELSE d
      /\ c.events = [i \in (b.dropped + 1)..at |->
                      IF i = at
                      THEN [type |-> type,
                            seq |-> IF type \in DurableTypes THEN b.nextSeq ELSE 0]
                      ELSE b.events[i]]
  BY DEF Appended
<1>2. /\ b.dropped \in Nat /\ b.tail \in Nat /\ b.dropped <= b.tail
      /\ b.events \in [(b.dropped + 1)..b.tail -> Event]
      /\ d \in Seq(Nat) /\ Len(d) \in Nat
      /\ b.evictedUpto \in Nat /\ b.nextSeq \in Nat /\ b.nextSeq > 0
      /\ at \in Nat /\ at = b.tail + 1
  BY DEF BufInv, BufTyped
<1>3. /\ \A i \in 1..Len(d) : d[i] \in (b.dropped + 1)..b.tail
      /\ \A i, j \in 1..Len(d) : i < j => d[i] < d[j]
      /\ \A k \in (b.dropped + 1)..b.tail :
           b.events[k].seq > 0 => \E i \in 1..Len(d) : d[i] = k
      /\ \A i \in 1..Len(d) : b.events[d[i]].seq = b.nextSeq - 1 - Len(d) + i
      /\ b.evictedUpto + Len(d) <= b.nextSeq - 1
  BY DEF BufInv, BufListed, BufSeqs
<1> HIDE DEF c, d, at
<1>4. /\ at \in (b.dropped + 1)..at
      /\ \A k \in (b.dropped + 1)..b.tail : k \in (b.dropped + 1)..at /\ k # at
      /\ \A k \in (b.dropped + 1)..at : k # at => k \in (b.dropped + 1)..b.tail
  BY <1>2
<1>5. /\ c.events[at].seq = IF type \in DurableTypes THEN b.nextSeq ELSE 0
      /\ \A k \in (b.dropped + 1)..b.tail : c.events[k] = b.events[k]
  BY <1>1, <1>4
<1>6. BufTyped(c)
  <2>1. [type |-> type, seq |-> IF type \in DurableTypes THEN b.nextSeq ELSE 0] \in Event
    BY <1>2 DEF Event
  <2>2. c.events \in [(b.dropped + 1)..at -> Event]
    BY <1>1, <1>2, <1>4, <2>1
  <2>3. c.durableIndex \in Seq(Nat)
    BY <1>1, <1>2
  <2> QED BY <1>1, <1>2, <2>2, <2>3, SMTT(40) DEF BufTyped
<1>7. ASSUME type \in DurableTypes
      PROVE  BufListed(c) /\ BufSeqs(c)
  <2>1. /\ c.durableIndex = Append(d, at) /\ c.nextSeq = b.nextSeq + 1
        /\ c.events[at].seq = b.nextSeq
    BY <1>1, <1>5, <1>7
  <2>2. /\ Len(c.durableIndex) = Len(d) + 1
        /\ c.durableIndex[Len(d) + 1] = at
        /\ \A i \in 1..Len(d) : c.durableIndex[i] = d[i]
    BY <1>2, <2>1
  <2>3. \A i \in 1..(Len(d) + 1) : i = Len(d) + 1 \/ i \in 1..Len(d)
    BY <1>2
  <2>4. BufListed(c)
    <3>1. \A i \in 1..Len(c.durableIndex) : c.durableIndex[i] \in (c.dropped + 1)..c.tail
      BY <1>1, <1>2, <1>3, <1>4, <2>2, <2>3, SMTT(40)
    <3>2. \A i, j \in 1..Len(c.durableIndex) :
            i < j => c.durableIndex[i] < c.durableIndex[j]
      <4> TAKE i, j \in 1..Len(c.durableIndex)
      <4> HAVE i < j
      <4>1. i \in 1..Len(d)
        BY <1>2, <2>2
      <4>2. CASE j = Len(d) + 1
        <5>1. d[i] \in (b.dropped + 1)..b.tail
          BY <4>1, <1>3
        <5>2. d[i] < at
          BY <5>1, <1>2
        <5> QED BY <4>1, <4>2, <5>2, <2>2
      <4>3. CASE j \in 1..Len(d)
        BY <4>1, <4>3, <1>3, <2>2
      <4> QED BY <4>2, <4>3, <2>2, <2>3
    <3>3. \A k \in (c.dropped + 1)..c.tail :
            c.events[k].seq > 0 =>
              \E i \in 1..Len(c.durableIndex) : c.durableIndex[i] = k
      <4> TAKE k \in (c.dropped + 1)..c.tail
      <4> HAVE c.events[k].seq > 0
      <4>1. CASE k = at
        <5>1. Len(d) + 1 \in 1..Len(c.durableIndex)
          BY <1>2, <2>2
        <5> QED BY <4>1, <5>1, <2>2
      <4>2. CASE k # at
        <5>1. k \in (b.dropped + 1)..b.tail
          BY <4>2, <1>1, <1>4
        <5>2. PICK i \in 1..Len(d) : d[i] = k
          BY <5>1, <1>3, <1>5
        <5>3. i \in 1..Len(c.durableIndex)
          BY <1>2, <2>2
        <5> QED BY <5>2, <5>3, <2>2
      <4> QED BY <4>1, <4>2
    <3> QED BY <3>1, <3>2, <3>3 DEF BufListed
  <2>5. BufSeqs(c)
    <3>1. ASSUME NEW i \in 1..Len(c.durableIndex)
          PROVE  c.events[c.durableIndex[i]].seq
                   = c.nextSeq - 1 - Len(c.durableIndex) + i
      <4>1. CASE i = Len(d) + 1
        BY <4>1, <1>2, <2>1, <2>2, SMTT(40)
      <4>2. CASE i # Len(d) + 1
        <5>1. i \in 1..Len(d)
          BY <4>2, <2>2, <2>3
        <5>2. c.events[c.durableIndex[i]].seq = b.nextSeq - 1 - Len(d) + i
          BY <5>1, <1>3, <1>5, <2>2, SMTT(40)
        <5>3. i \in Int /\ b.nextSeq \in Int /\ Len(d) \in Int
          BY <5>1, <1>2
        <5>4. b.nextSeq - 1 - Len(d) + i = (b.nextSeq + 1) - 1 - (Len(d) + 1) + i
          BY <5>3, ShiftBoth
        <5>5. c.nextSeq = b.nextSeq + 1 /\ Len(c.durableIndex) = Len(d) + 1
          BY <2>1, <2>2
        <5> QED BY <5>2, <5>4, <5>5
      <4> QED BY <4>1, <4>2
    <3>2. c.evictedUpto + Len(c.durableIndex) <= c.nextSeq - 1
      BY <1>1, <1>2, <1>3, <2>1, <2>2, SMTT(40)
    <3> QED BY <3>1, <3>2 DEF BufSeqs
  <2> QED BY <2>4, <2>5
<1>8. ASSUME type \notin DurableTypes
      PROVE  BufListed(c) /\ BufSeqs(c)
  <2>1. c.durableIndex = d /\ c.nextSeq = b.nextSeq /\ c.events[at].seq = 0
    BY <1>1, <1>5, <1>8
  <2>2. BufListed(c)
    <3>1. \A i \in 1..Len(d) : d[i] \in (c.dropped + 1)..c.tail
      BY <1>1, <1>3, <1>4
    <3>2. \A k \in (c.dropped + 1)..c.tail :
            c.events[k].seq > 0 => \E i \in 1..Len(d) : d[i] = k
      <4> TAKE k \in (c.dropped + 1)..c.tail
      <4> HAVE c.events[k].seq > 0
      <4>1. k \in (b.dropped + 1)..b.tail
        BY <1>1, <1>4, <2>1
      <4> QED BY <4>1, <1>3, <1>5
    <3> QED BY <1>3, <2>1, <3>1, <3>2 DEF BufListed
  <2>3. BufSeqs(c)
    <3>1. \A i \in 1..Len(d) : c.events[d[i]].seq = b.nextSeq - 1 - Len(d) + i
      BY <1>3, <1>5
    <3>2. c.evictedUpto = b.evictedUpto
      BY <1>1
    <3> QED BY <1>3, <2>1, <3>1, <3>2 DEF BufSeqs
  <2> QED BY <2>2, <2>3
<1>9. BufFull(b) => BufFull(c)
  <2>1. CASE type \in DurableTypes
    <3>1. /\ Len(c.durableIndex) = Len(d) + 1 /\ c.nextSeq = b.nextSeq + 1
          /\ c.evictedUpto = b.evictedUpto
      BY <1>1, <1>2, <2>1
    <3>2. b.nextSeq - 1 <= b.evictedUpto + Len(d)
            => (b.nextSeq + 1) - 1 <= b.evictedUpto + (Len(d) + 1)
      BY <1>2
    <3> QED BY <3>1, <3>2 DEF BufFull, d
  <2>2. CASE type \notin DurableTypes
    BY <1>1, <2>2 DEF BufFull, d
  <2> QED BY <2>1, <2>2
<1>10. BufInv(c)
  BY <1>6, <1>7, <1>8 DEF BufInv
<1>11. Len(c.durableIndex) <= Len(d) + 1
  BY <1>1, <1>2
<1>12. c.events[c.tail].type = type
  BY <1>1, <1>4
<1>13. type \in DurableTypes => c.events[c.tail].seq = b.nextSeq
  BY <1>1, <1>5
<1> QED BY <1>1, <1>5, <1>9, <1>10, <1>11, <1>12, <1>13 DEF c, at, d

(* Dropping a head prefix with the durable events in it keeps the rest     *)
(* listed and records the highest evicted seq (_trim).                     *)
LEMMA EvictInv ==
  ASSUME NEW b, BufInv(b),
         NEW cut \in Nat, b.dropped <= cut, cut <= b.tail,
         NEW n \in Nat, n <= Len(b.durableIndex),
         \A i \in 1..n : b.durableIndex[i] <= cut,
         \A i \in (n + 1)..Len(b.durableIndex) : b.durableIndex[i] > cut
  PROVE  LET c == Evict(b, cut, n) IN
         /\ BufInv(c)
         /\ BufFull(b) => BufFull(c)
         /\ c.tail = b.tail /\ c.dropped = cut /\ c.nextSeq = b.nextSeq
         /\ Len(c.durableIndex) = Len(b.durableIndex) - n
         /\ b.evictedUpto <= c.evictedUpto
         /\ \A k \in (cut + 1)..b.tail : c.events[k] = b.events[k]
<1> DEFINE c == Evict(b, cut, n)
           d == b.durableIndex
<1>1. /\ c.tail = b.tail /\ c.dropped = cut /\ c.nextSeq = b.nextSeq
      /\ c.durableIndex = SubSeq(d, n + 1, Len(d))
      /\ c.evictedUpto = IF n = 0 THEN b.evictedUpto
                         ELSE Larger(b.evictedUpto, b.events[d[n]].seq)
      /\ c.events = [i \in (cut + 1)..b.tail |-> b.events[i]]
  BY DEF Evict
<1>2. /\ b.dropped \in Nat /\ b.tail \in Nat /\ b.dropped <= b.tail
      /\ b.events \in [(b.dropped + 1)..b.tail -> Event]
      /\ d \in Seq(Nat) /\ Len(d) \in Nat
      /\ b.evictedUpto \in Nat /\ b.nextSeq \in Nat /\ b.nextSeq > 0
  BY DEF BufInv, BufTyped
<1>3. /\ \A i \in 1..Len(d) : d[i] \in (b.dropped + 1)..b.tail
      /\ \A i, j \in 1..Len(d) : i < j => d[i] < d[j]
      /\ \A k \in (b.dropped + 1)..b.tail :
           b.events[k].seq > 0 => \E i \in 1..Len(d) : d[i] = k
      /\ \A i \in 1..Len(d) : b.events[d[i]].seq = b.nextSeq - 1 - Len(d) + i
      /\ b.evictedUpto + Len(d) <= b.nextSeq - 1
  BY DEF BufInv, BufListed, BufSeqs
<1>4. /\ n <= Len(d)
      /\ \A i \in 1..n : d[i] <= cut
      /\ \A i \in (n + 1)..Len(d) : d[i] > cut
  OBVIOUS
<1> HIDE DEF c, d
<1>5. /\ \A k \in (cut + 1)..b.tail : k \in (b.dropped + 1)..b.tail
      /\ \A k \in (cut + 1)..b.tail : c.events[k] = b.events[k]
      /\ c.events \in [(cut + 1)..b.tail -> Event]
  BY <1>1, <1>2, SMTT(40)
<1>6. /\ c.durableIndex \in Seq(Nat)
      /\ Len(c.durableIndex) = Len(d) - n
      /\ \A i \in 1..(Len(d) - n) : c.durableIndex[i] = d[i + n]
  BY <1>1, <1>2, <1>4, SMTT(40)
<1>7. /\ \A i \in 1..(Len(d) - n) : i + n \in 1..Len(d) /\ i + n \in (n + 1)..Len(d)
      /\ \A i \in 1..Len(d) : i > n => i - n \in 1..(Len(d) - n) /\ (i - n) + n = i
      /\ n > 0 => n \in 1..Len(d)
  BY <1>2, <1>4
<1>8. c.evictedUpto = IF n = 0 THEN b.evictedUpto ELSE b.nextSeq - 1 - Len(d) + n
  <2>1. n > 0 => b.events[d[n]].seq = b.nextSeq - 1 - Len(d) + n
    BY <1>3, <1>7
  <2> QED BY <1>1, <1>2, <1>3, <2>1, SMTT(40) DEF Larger
<1>9. BufTyped(c)
  <2>1. c.evictedUpto \in Nat
    <3>1. n > 0 => b.nextSeq - 1 - Len(d) + n \in Nat
      BY <1>2, <1>3, SMTT(40)
    <3> QED BY <1>2, <1>8, <3>1
  <2>2. cut <= b.tail
    OBVIOUS
  <2> QED BY <1>1, <1>2, <1>5, <1>6, <2>1, <2>2 DEF BufTyped
<1>10. BufListed(c)
  <2>1. \A i \in 1..Len(c.durableIndex) : c.durableIndex[i] \in (c.dropped + 1)..c.tail
    <3> TAKE i \in 1..Len(c.durableIndex)
    <3>1. /\ c.durableIndex[i] = d[i + n] /\ d[i + n] > cut
          /\ d[i + n] \in (b.dropped + 1)..b.tail
      BY <1>3, <1>4, <1>6, <1>7
    <3>2. d[i + n] \in (cut + 1)..b.tail
      BY <3>1, <1>2
    <3> QED BY <3>1, <3>2, <1>1
  <2>2. \A i, j \in 1..Len(c.durableIndex) :
          i < j => c.durableIndex[i] < c.durableIndex[j]
    <3> TAKE i, j \in 1..Len(c.durableIndex)
    <3>1. /\ i + n \in 1..Len(d) /\ j + n \in 1..Len(d)
          /\ c.durableIndex[i] = d[i + n] /\ c.durableIndex[j] = d[j + n]
      BY <1>6, <1>7
    <3>2. i < j => i + n < j + n
      BY <1>6, <1>2
    <3> QED BY <3>1, <3>2, <1>3
  <2>3. ASSUME NEW k \in (c.dropped + 1)..c.tail, c.events[k].seq > 0
        PROVE  \E i \in 1..Len(c.durableIndex) : c.durableIndex[i] = k
    <3>1. k \in (b.dropped + 1)..b.tail /\ b.events[k].seq > 0 /\ k > cut
      BY <1>1, <1>2, <1>5, <2>3
    <3>2. PICK i \in 1..Len(d) : d[i] = k
      BY <3>1, <1>3
    <3>3. i > n
      <4>1. i <= n => i \in 1..n
        OBVIOUS
      <4> QED BY <3>1, <3>2, <4>1, <1>2, <1>4
    <3>4. i - n \in 1..Len(c.durableIndex) /\ c.durableIndex[i - n] = k
      BY <3>2, <3>3, <1>6, <1>7
    <3> QED BY <3>4
  <2> QED BY <2>1, <2>2, <2>3 DEF BufListed
<1>11. BufSeqs(c)
  <2>1. ASSUME NEW i \in 1..Len(c.durableIndex)
        PROVE  c.events[c.durableIndex[i]].seq
                 = c.nextSeq - 1 - Len(c.durableIndex) + i
    <3>1. /\ i + n \in 1..Len(d) /\ c.durableIndex[i] = d[i + n]
          /\ d[i + n] > cut /\ d[i + n] \in (b.dropped + 1)..b.tail
      BY <1>3, <1>4, <1>6, <1>7
    <3>2. d[i + n] \in (cut + 1)..b.tail
      BY <3>1, <1>2, SMTT(40)
    <3>3. c.events[c.durableIndex[i]].seq = b.nextSeq - 1 - Len(d) + (i + n)
      BY <3>1, <3>2, <1>3, <1>5
    <3> QED BY <3>3, <1>1, <1>2, <1>6
  <2>2. c.evictedUpto + Len(c.durableIndex) <= c.nextSeq - 1
    BY <1>1, <1>2, <1>3, <1>6, <1>8, SMTT(40)
  <2> QED BY <2>1, <2>2 DEF BufSeqs
<1>12. BufFull(b) => BufFull(c)
  <2>1. b.nextSeq - 1 <= b.evictedUpto + Len(d)
          => b.nextSeq - 1 <= c.evictedUpto + (Len(d) - n)
    BY <1>2, <1>8
  <2> QED BY <1>1, <1>6, <2>1 DEF BufFull, d
<1>13. b.evictedUpto <= c.evictedUpto
  BY <1>2, <1>3, <1>4, <1>8, SMTT(40)
<1>14. BufInv(c)
  BY <1>9, <1>10, <1>11 DEF BufInv
<1> QED BY <1>1, <1>5, <1>6, <1>12, <1>13, <1>14 DEF c, d

(* The durable limit cuts right after the last durable event it drops.     *)
LEMMA TrimDurableInv ==
  ASSUME NEW b, BufInv(b)
  PROVE  LET c == TrimDurable(b) IN
         /\ BufInv(c)
         /\ BufFull(b) => BufFull(c)
         /\ BufferSize > 0 => Len(c.durableIndex) <= BufferSize
         /\ c.tail = b.tail /\ b.dropped <= c.dropped /\ c.nextSeq = b.nextSeq
         /\ b.evictedUpto <= c.evictedUpto
         /\ \A k \in (c.dropped + 1)..c.tail :
              k \in (b.dropped + 1)..b.tail /\ c.events[k] = b.events[k]
<1> DEFINE c == TrimDurable(b)
           d == b.durableIndex
           n == Len(d) - BufferSize
<1>1. /\ b.dropped \in Nat /\ b.tail \in Nat /\ d \in Seq(Nat) /\ Len(d) \in Nat
      /\ b.dropped <= b.tail /\ b.evictedUpto \in Nat /\ BufferSize \in Nat
      /\ \A i \in 1..Len(d) : d[i] \in (b.dropped + 1)..b.tail
      /\ \A i, j \in 1..Len(d) : i < j => d[i] < d[j]
  BY BufferAssumption, SMTT(40) DEF BufInv, BufTyped, BufListed
<1>2. CASE ~(BufferSize > 0 /\ n > 0)
  <2>1. c = b
    BY <1>2 DEF TrimDurable
  <2>2. BufferSize > 0 => Len(b.durableIndex) <= BufferSize
    BY <1>1, <1>2
  <2> QED BY <1>1, <2>1, <2>2
<1>3. CASE BufferSize > 0 /\ n > 0
  <2>1. c = Evict(b, d[n], n)
    BY <1>3 DEF TrimDurable
  <2>2. n \in Nat /\ n \in 1..Len(d) /\ n <= Len(d) /\ Len(d) - n = BufferSize
    BY <1>1, <1>3
  <2> HIDE DEF n
  <2>3. /\ d[n] \in Nat /\ b.dropped <= d[n] /\ d[n] <= b.tail
    <3>1. d[n] \in (b.dropped + 1)..b.tail
      BY <1>1, <2>2
    <3> QED BY <3>1, <1>1
  <2>4. \A i \in 1..n : d[i] <= d[n]
    <3> TAKE i \in 1..n
    <3>1. i \in 1..Len(d) /\ (i = n \/ i < n)
      BY <2>2, <1>1
    <3>2. i < n => d[i] < d[n]
      BY <1>1, <2>2, <3>1
    <3>3. d[i] \in (b.dropped + 1)..b.tail
      BY <3>1, <1>1
    <3> QED BY <3>1, <3>2, <3>3, <2>3, <1>1
  <2>5. \A i \in (n + 1)..Len(d) : d[i] > d[n]
    <3> TAKE i \in (n + 1)..Len(d)
    <3>1. i \in 1..Len(d) /\ n < i
      BY <2>2, <1>1
    <3>2. d[n] < d[i]
      BY <3>1, <2>2, <1>1
    <3>3. d[i] \in (b.dropped + 1)..b.tail
      BY <3>1, <1>1
    <3> QED BY <3>2, <3>3, <2>3, <1>1
  <2>6. /\ BufInv(c) /\ (BufFull(b) => BufFull(c))
        /\ c.tail = b.tail /\ c.dropped = d[n] /\ c.nextSeq = b.nextSeq
        /\ Len(c.durableIndex) = Len(d) - n
        /\ b.evictedUpto <= c.evictedUpto
        /\ \A k \in (d[n] + 1)..b.tail : c.events[k] = b.events[k]
    <3> HIDE DEF c, d
    <3> QED BY <2>1, <2>2, <2>3, <2>4, <2>5, EvictInv, ZenonT(60) DEF d
  <2>7. \A k \in (c.dropped + 1)..c.tail : k \in (b.dropped + 1)..b.tail
    BY <1>1, <2>3, <2>6, SMTT(40)
  <2>8. Len(c.durableIndex) <= BufferSize
    BY <2>2, <2>6, <1>1
  <2> HIDE DEF c, d
  <2>9. /\ b.dropped <= c.dropped
        /\ \A k \in (c.dropped + 1)..c.tail : c.events[k] = b.events[k]
    BY <2>3, <2>6
  <2> QED BY <2>6, <2>7, <2>8, <2>9 DEF c
<1> QED BY <1>2, <1>3

(* The total cap drops at most one event more than it keeps, because every *)
(* append is followed by a trim; evicted_upto follows it.                  *)
LEMMA TrimTotalInv ==
  ASSUME NEW b, BufInv(b), b.tail - b.dropped <= MaxEvents + 1
  PROVE  LET c == TrimTotal(b) IN
         /\ BufInv(c)
         /\ BufFull(b) => BufFull(c)
         /\ Len(c.durableIndex) <= Len(b.durableIndex)
         /\ c.tail - c.dropped <= MaxEvents
         /\ c.tail = b.tail /\ b.dropped <= c.dropped /\ c.nextSeq = b.nextSeq
         /\ b.evictedUpto <= c.evictedUpto
         /\ \A k \in (c.dropped + 1)..c.tail :
              k \in (b.dropped + 1)..b.tail /\ c.events[k] = b.events[k]
<1> DEFINE c == TrimTotal(b)
           d == b.durableIndex
           head == b.tail - MaxEvents
<1>1. /\ b.dropped \in Nat /\ b.tail \in Nat /\ d \in Seq(Nat) /\ Len(d) \in Nat
      /\ b.dropped <= b.tail /\ b.evictedUpto \in Nat
      /\ MaxEvents \in Nat /\ MaxEvents > 0
      /\ \A i \in 1..Len(d) : d[i] \in (b.dropped + 1)..b.tail
      /\ \A i, j \in 1..Len(d) : i < j => d[i] < d[j]
  BY BufferAssumption DEF BufInv, BufTyped, BufListed
<1>2. CASE ~(head > b.dropped)
  <2>1. c = b
    BY <1>2 DEF TrimTotal
  <2>2. b.tail - b.dropped <= MaxEvents
    BY <1>1, <1>2
  <2> QED BY <1>1, <2>1, <2>2
<1>3. CASE head > b.dropped
  <2> DEFINE n == DurableUpTo(b, head)
  <2>1. c = Evict(b, head, n)
    BY <1>3 DEF TrimTotal
  <2>2. head \in Nat /\ head = b.dropped + 1 /\ head <= b.tail
    BY <1>1, <1>3, SMTT(40)
  <2>3. \E m \in 0..Len(d) :
          /\ \A i \in 1..m : d[i] <= head
          /\ \A i \in (m + 1)..Len(d) : d[i] > head
    <3>1. CASE Len(d) > 0 /\ d[1] = head
      <4>1. \A i \in (1 + 1)..Len(d) : d[i] > head
        <5> TAKE i \in (1 + 1)..Len(d)
        <5>1. 1 \in 1..Len(d) /\ i \in 1..Len(d) /\ 1 < i
          BY <1>1, <3>1
        <5>2. d[1] < d[i] /\ d[i] \in (b.dropped + 1)..b.tail
          BY <5>1, <1>1
        <5> QED BY <5>2, <3>1, <2>2, <1>1
      <4>2. \A i \in 1..1 : d[i] <= head
        BY <3>1, <2>2
      <4>3. 1 \in 0..Len(d)
        BY <3>1, <1>1
      <4> QED BY <4>1, <4>2, <4>3
    <3>2. CASE ~(Len(d) > 0 /\ d[1] = head)
      <4>1. \A i \in (0 + 1)..Len(d) : d[i] > head
        <5> TAKE i \in (0 + 1)..Len(d)
        <5>1. 1 \in 1..Len(d) /\ i \in 1..Len(d) /\ (i = 1 \/ 1 < i)
          BY <1>1
        <5>2. /\ 1 < i => d[1] < d[i]
              /\ d[i] \in (b.dropped + 1)..b.tail /\ d[1] \in (b.dropped + 1)..b.tail
              /\ d[1] # head
          BY <5>1, <3>2, <1>1, SMTT(40)
        <5> QED BY <5>1, <5>2, <2>2, <1>1, SMTT(40)
      <4>2. \A i \in 1..0 : d[i] <= head
        OBVIOUS
      <4>3. 0 \in 0..Len(d)
        BY <1>1
      <4> QED BY <4>1, <4>2, <4>3
    <3> QED BY <3>1, <3>2
  <2>4. /\ n \in 0..Len(d)
        /\ \A i \in 1..n : d[i] <= head
        /\ \A i \in (n + 1)..Len(d) : d[i] > head
    <3> HIDE DEF head
    <3> QED BY <2>3 DEF DurableUpTo
  <2>5. n \in Nat /\ n <= Len(d) /\ b.dropped <= head
    BY <2>4, <2>2, <1>1
  <2>6. /\ BufInv(c) /\ (BufFull(b) => BufFull(c))
        /\ c.tail = b.tail /\ c.dropped = head /\ c.nextSeq = b.nextSeq
        /\ Len(c.durableIndex) = Len(d) - n
        /\ b.evictedUpto <= c.evictedUpto
        /\ \A k \in (head + 1)..b.tail : c.events[k] = b.events[k]
    <3> HIDE DEF c, n, head
    <3>1. head \in Nat /\ b.dropped <= head /\ head <= b.tail
      BY <2>2, <2>5
    <3>2. n \in Nat /\ n <= Len(b.durableIndex)
      BY <2>5
    <3>3. /\ \A i \in 1..n : b.durableIndex[i] <= head
          /\ \A i \in (n + 1)..Len(b.durableIndex) : b.durableIndex[i] > head
      BY <2>4
    <3> QED BY <2>1, <3>1, <3>2, <3>3, EvictInv, ZenonT(60)
  <2> HIDE DEF c, d, n
  <2>7. \A k \in (c.dropped + 1)..c.tail :
          k \in (b.dropped + 1)..b.tail /\ c.events[k] = b.events[k]
    <3>1. \A k \in (head + 1)..b.tail : k \in (b.dropped + 1)..b.tail
      BY <1>1, <2>2
    <3> HIDE DEF head
    <3> QED BY <2>6, <3>1
  <2>8. Len(c.durableIndex) <= Len(d) /\ c.tail - c.dropped <= MaxEvents
    BY <2>5, <2>6, <1>1
  <2> QED BY <2>5, <2>6, <2>7, <2>8 DEF c, d
<1> QED BY <1>2, <1>3

(* emit(): one event more, the buffer as exact and as bounded as before.   *)
LEMMA EmitInv ==
  ASSUME NEW b, BufInv(b), BufLimits(b), NEW type \in EventTypes
  PROVE  LET c == Emit(b, type) IN
         /\ BufInv(c) /\ BufLimits(c)
         /\ BufFull(b) => BufFull(c)
         /\ c.tail = b.tail + 1
         /\ c.nextSeq = IF type \in DurableTypes THEN b.nextSeq + 1 ELSE b.nextSeq
         /\ b.evictedUpto <= c.evictedUpto
         /\ \A k \in (c.dropped + 1)..c.tail :
              k <= b.tail => /\ k \in (b.dropped + 1)..b.tail
                             /\ c.events[k] = b.events[k]
         /\ c.tail \in (c.dropped + 1)..c.tail => c.events[c.tail].type = type
         /\ c.tail \in (c.dropped + 1)..c.tail /\ type \in DurableTypes
              => c.events[c.tail].seq = b.nextSeq
<1> DEFINE a == Appended(b, type)
           t == TrimDurable(a)
           c == TrimTotal(t)
<1>1. /\ BufInv(a) /\ (BufFull(b) => BufFull(a))
      /\ a.tail = b.tail + 1 /\ a.dropped = b.dropped
      /\ a.evictedUpto = b.evictedUpto
      /\ a.nextSeq = IF type \in DurableTypes THEN b.nextSeq + 1 ELSE b.nextSeq
      /\ \A k \in (b.dropped + 1)..b.tail : a.events[k] = b.events[k]
      /\ a.events[a.tail].type = type
      /\ type \in DurableTypes => a.events[a.tail].seq = b.nextSeq
  <2> HIDE DEF a
  <2> QED BY AppendedInv DEF a
<1> HIDE DEF a
<1>2. /\ BufInv(t) /\ (BufFull(a) => BufFull(t))
      /\ BufferSize > 0 => Len(t.durableIndex) <= BufferSize
      /\ t.tail = a.tail /\ a.dropped <= t.dropped /\ t.nextSeq = a.nextSeq
      /\ a.evictedUpto <= t.evictedUpto
      /\ \A k \in (t.dropped + 1)..t.tail :
           k \in (a.dropped + 1)..a.tail /\ t.events[k] = a.events[k]
  <2> HIDE DEF t
  <2> QED BY <1>1, TrimDurableInv DEF t
<1> HIDE DEF t
<1>3. /\ b.tail \in Nat /\ b.dropped \in Nat /\ t.tail \in Nat /\ t.dropped \in Nat
      /\ b.evictedUpto \in Nat /\ t.evictedUpto \in Nat /\ MaxEvents \in Nat
      /\ BufferSize \in Nat /\ Len(t.durableIndex) \in Nat
  BY <1>2, BufferAssumption DEF BufInv, BufTyped
<1>4. t.tail - t.dropped <= MaxEvents + 1
  <2>1. b.tail - b.dropped <= MaxEvents
    BY DEF BufLimits
  <2> QED BY <1>1, <1>2, <1>3, <2>1
<1>5. /\ BufInv(c) /\ (BufFull(t) => BufFull(c))
      /\ Len(c.durableIndex) <= Len(t.durableIndex)
      /\ c.tail - c.dropped <= MaxEvents
      /\ c.tail = t.tail /\ t.dropped <= c.dropped /\ c.nextSeq = t.nextSeq
      /\ t.evictedUpto <= c.evictedUpto
      /\ \A k \in (c.dropped + 1)..c.tail :
           k \in (t.dropped + 1)..t.tail /\ c.events[k] = t.events[k]
  <2> HIDE DEF c
  <2> QED BY <1>2, <1>4, TrimTotalInv DEF c
<1> HIDE DEF c
<1>6. /\ c.dropped \in Nat /\ c.tail \in Nat /\ Len(c.durableIndex) \in Nat
      /\ c.evictedUpto \in Nat
  BY <1>5 DEF BufInv, BufTyped
<1>7. BufLimits(c)
  BY <1>2, <1>3, <1>5, <1>6 DEF BufLimits
<1>8. b.evictedUpto <= c.evictedUpto
  BY <1>1, <1>2, <1>3, <1>5, <1>6
<1>9. \A k \in (c.dropped + 1)..c.tail :
        /\ k \in (a.dropped + 1)..a.tail /\ c.events[k] = a.events[k]
  BY <1>2, <1>5
<1>10. \A k \in (c.dropped + 1)..c.tail :
         k <= b.tail => k \in (b.dropped + 1)..b.tail /\ c.events[k] = b.events[k]
  <2> TAKE k \in (c.dropped + 1)..c.tail
  <2> HAVE k <= b.tail
  <2>1. k \in (b.dropped + 1)..b.tail
    BY <1>1, <1>3, <1>9
  <2> QED BY <2>1, <1>1, <1>9
<1>11. /\ c.tail = a.tail
       /\ c.tail \in (c.dropped + 1)..c.tail => c.events[c.tail] = a.events[a.tail]
  BY <1>2, <1>5, <1>9
<1>12. Emit(b, type) = c
  BY DEF Emit, c, t, a
<1> QED BY <1>1, <1>2, <1>5, <1>7, <1>8, <1>10, <1>11, <1>12

(* What a reader of an exact buffer may rely on: seqs grow with the        *)
(* position, and no seq between evicted_upto and next_seq is missing.      *)
LEMMA BufferReads ==
  ASSUME NEW b, BufInv(b)
  PROVE  /\ \A k \in (b.dropped + 1)..b.tail :
              b.events[k] \in Event /\ b.events[k].seq \in Nat
                /\ b.events[k].seq < b.nextSeq
         /\ \A k, m \in (b.dropped + 1)..b.tail :
              k < m /\ b.events[k].seq > 0 /\ b.events[m].seq > 0
                => b.events[k].seq < b.events[m].seq
         /\ BufFull(b) =>
              \A n \in Nat : b.evictedUpto < n /\ n < b.nextSeq =>
                \E k \in (b.dropped + 1)..b.tail : b.events[k].seq = n
<1> DEFINE d == b.durableIndex
<1>1. /\ b.dropped \in Nat /\ b.tail \in Nat /\ d \in Seq(Nat) /\ Len(d) \in Nat
      /\ b.evictedUpto \in Nat /\ b.nextSeq \in Nat /\ b.nextSeq > 0
      /\ b.events \in [(b.dropped + 1)..b.tail -> Event]
  BY DEF BufInv, BufTyped
<1>2. /\ \A i \in 1..Len(d) : d[i] \in (b.dropped + 1)..b.tail
      /\ \A i, j \in 1..Len(d) : i < j => d[i] < d[j]
      /\ \A k \in (b.dropped + 1)..b.tail :
           b.events[k].seq > 0 => \E i \in 1..Len(d) : d[i] = k
      /\ \A i \in 1..Len(d) : b.events[d[i]].seq = b.nextSeq - 1 - Len(d) + i
      /\ b.evictedUpto + Len(d) <= b.nextSeq - 1
  BY DEF BufInv, BufListed, BufSeqs
<1> HIDE DEF d
<1>3. \A k \in (b.dropped + 1)..b.tail :
        b.events[k] \in Event /\ b.events[k].seq \in Nat
          /\ b.events[k].seq < b.nextSeq
  <2> TAKE k \in (b.dropped + 1)..b.tail
  <2>1. b.events[k] \in Event /\ b.events[k].seq \in Nat
    BY <1>1 DEF Event
  <2>2. CASE b.events[k].seq > 0
    <3>1. PICK i \in 1..Len(d) : d[i] = k
      BY <2>2, <1>2
    <3>2. b.events[k].seq = b.nextSeq - 1 - Len(d) + i
      BY <3>1, <1>2
    <3> QED BY <2>1, <3>2, <1>1, SMTT(40)
  <2>3. CASE ~(b.events[k].seq > 0)
    BY <2>1, <2>3, <1>1
  <2> QED BY <2>1, <2>2, <2>3
<1>4. \A k, m \in (b.dropped + 1)..b.tail :
        k < m /\ b.events[k].seq > 0 /\ b.events[m].seq > 0
          => b.events[k].seq < b.events[m].seq
  <2> TAKE k, m \in (b.dropped + 1)..b.tail
  <2> HAVE k < m /\ b.events[k].seq > 0 /\ b.events[m].seq > 0
  <2>1. PICK i \in 1..Len(d) : d[i] = k
    BY <1>2
  <2>2. PICK j \in 1..Len(d) : d[j] = m
    BY <1>2
  <2>3. i < j
    <3>1. k \in Int /\ m \in Int /\ i \in Int /\ j \in Int /\ k < m
      BY <1>1
    <3>2. j < i => m < k
      BY <2>1, <2>2, <1>2
    <3>3. i = j => k = m
      BY <2>1, <2>2
    <3> QED BY <3>1, <3>2, <3>3
  <2>4. /\ b.events[k].seq = b.nextSeq - 1 - Len(d) + i
        /\ b.events[m].seq = b.nextSeq - 1 - Len(d) + j
    BY <2>1, <2>2, <1>2
  <2> QED BY <2>3, <2>4, <1>1, SMTT(40)
<1>5. ASSUME BufFull(b), NEW n \in Nat, b.evictedUpto < n, n < b.nextSeq
      PROVE  \E k \in (b.dropped + 1)..b.tail : b.events[k].seq = n
  <2> DEFINE i == n - (b.nextSeq - 1 - Len(d))
  <2>1. b.nextSeq - 1 <= b.evictedUpto + Len(d)
    BY <1>5 DEF BufFull, d
  <2>2. i \in 1..Len(d) /\ b.nextSeq - 1 - Len(d) + i = n
    BY <2>1, <1>1, <1>2, <1>5, SMTT(40)
  <2> HIDE DEF i
  <2>3. d[i] \in (b.dropped + 1)..b.tail /\ b.events[d[i]].seq = n
    BY <2>2, <1>2
  <2> QED BY <2>3
<1> QED BY <1>3, <1>4, <1>5

----------------------------------------------------------------------------
(* The inductive invariant, by parts.                                      *)

Follow == {"following", "snap", "wait", "idle"}
Open   == Follow \cup {"replaying"}

(* The queue holds something exactly while the generator is yielding.      *)
QueueInv(s) ==
  /\ pc[s] \in {"replaying", "following"} => Len(queue[s]) > 0
  /\ pc[s] \notin {"replaying", "following"} => Len(queue[s]) = 0
  /\ \A k \in 1..Len(queue[s]) : queue[s][k].seq < buf.nextSeq
  /\ \A k, m \in 1..Len(queue[s]) :
       k < m /\ queue[s][k].seq > 0 /\ queue[s][m].seq > 0
         => queue[s][k].seq < queue[s][m].seq

(* How the generator's locals stand to the client's cursor.                *)
LocalInv(s) ==
  /\ cursor[s] < buf.nextSeq /\ delivered[s] < buf.nextSeq
  /\ pc[s] # "off" => after[s] <= cursor[s]
  /\ pc[s] \in {"check", "replay"} => after[s] = cursor[s]
  /\ pc[s] \in Follow \cup {"check", "replay", "gap"} => delivered[s] = cursor[s]
  /\ pc[s] = "mark" => cursor[s] < delivered[s]
  /\ pc[s] = "replaying" =>
       /\ cursor[s] <= delivered[s]
       /\ \A k \in 1..Len(queue[s]) :
            /\ queue[s][k].seq <= delivered[s]
            /\ queue[s][k].seq > after[s] => queue[s][k].seq > cursor[s]
       /\ \/ delivered[s] = cursor[s]
          \/ \E k \in 1..Len(queue[s]) : queue[s][k].seq = delivered[s]

Pending(s) == {queue[s][k].seq : k \in 1..Len(queue[s])}
ResyncAhead(s) ==
  \E k \in 1..Len(queue[s]) :
    queue[s][k].type = "resync" /\ queue[s][k].seq > cursor[s]

(* Nothing at or before the subscriber's index is lost to it ...           *)
PassedInv(s) ==
  pc[s] \in Open /\ ~ResyncAhead(s) =>
    \A k \in (buf.dropped + 1)..buf.tail :
      k <= index[s] /\ buf.events[k].seq > 0 =>
        buf.events[k].seq \in seen[s] \cup Pending(s)

(* ... and what it is about to yield comes without a hole.                 *)
QueueWhole(s) ==
  \A k \in 1..Len(queue[s]) :
    queue[s][k].type # "resync" =>
      \A n \in 1..(queue[s][k].seq - 1) :
        n \in seen[s] \/ \E m \in 1..(k - 1) : queue[s][m].seq = n

CoverInv(s) ==
  /\ pc[s] \in Open => index[s] <= buf.tail
  /\ Undisturbed(s) =>
       /\ 1..cursor[s] \subseteq seen[s]
       /\ PassedInv(s)
       /\ QueueWhole(s)

(* The terminal event is the one of termSeq, in the buffer and in queues.  *)
TermInv ==
  /\ status = "terminal" => termSeq > 0 /\ termSeq < buf.nextSeq
  /\ \A s \in Subs : pc[s] = "done" => status = "terminal"
  /\ \A s \in Subs : pc[s] = "idle" => s \in SyncSubs
  /\ \A k \in (buf.dropped + 1)..buf.tail :
       buf.events[k].type = "terminal" =>
         status = "terminal" /\ buf.events[k].seq = termSeq
  /\ \A s \in Subs : \A k \in 1..Len(queue[s]) :
       queue[s][k].type = "terminal" =>
         status = "terminal" /\ queue[s][k].seq = termSeq

DoneInv(s) ==
  s \in AsyncSubs /\ pc[s] = "done" /\ Undisturbed(s) => termSeq \in seen[s]

RecordInv ==
  /\ BufInv(buf) /\ BufLimits(buf)
  /\ retained => BufFull(buf)
  /\ TypeOK

IInv ==
  /\ RecordInv
  /\ \A s \in Subs : QueueInv(s) /\ LocalInv(s)
  /\ TermInv
  /\ retained => \A s \in Subs : CoverInv(s) /\ DoneInv(s)

----------------------------------------------------------------------------
(* The record and the subscribers start out in the inductive invariant.    *)
LEMMA InitInv == Init => IInv
<1> SUFFICES ASSUME Init PROVE IInv
  OBVIOUS
<1>1. BufTyped(buf) /\ BufListed(buf) /\ BufSeqs(buf) /\ BufLimits(buf) /\ BufFull(buf)
  BY BufferAssumption
     DEF Init, EmptyBuffer, BufTyped, BufListed, BufSeqs, BufLimits, BufFull, Event, EventTypes
<1>2. GenTyped /\ ClientTyped
  BY DEF Init, GenTyped, ClientTyped, Labels
<1>3. RecordInv
  BY <1>1, <1>2 DEF Init, RecordInv, BufInv, TypeOK
<1>4. \A s \in Subs : Len(queue[s]) = 0 /\ cursor[s] = 0 /\ delivered[s] = 0 /\ pc[s] = "off"
  BY DEF Init
<1>5. buf.nextSeq = 1 /\ buf.dropped = 0 /\ buf.tail = 0
  BY DEF Init, EmptyBuffer
<1>6. \A s \in Subs : QueueInv(s) /\ LocalInv(s)
  BY <1>4, <1>5 DEF QueueInv, LocalInv, Follow
<1>7. TermInv
  BY <1>4, <1>5 DEF TermInv, Init
<1>8. \A s \in Subs : CoverInv(s) /\ DoneInv(s)
  BY <1>4 DEF CoverInv, PassedInv, QueueWhole, DoneInv, Open, Follow
<1> QED BY <1>3, <1>6, <1>7, <1>8 DEF IInv

(* The buffer part: only emit(), _finish(), a resync and _sweep() write it *)
LEMMA BufferStep ==
  ASSUME RecordInv, [Next]_vars
  PROVE  /\ BufInv(buf)' /\ BufLimits(buf)'
         /\ retained' => BufFull(buf)'
         /\ retained' => retained
         /\ \/ buf' = buf
            \/ \E type \in EventTypes : buf' = Emit(buf, type)
            \/ buf' = Cleared(buf) /\ ~retained'
<1>1. \/ buf' = buf /\ retained' = retained
      \/ retained' = retained /\ \E type \in EventTypes : buf' = Emit(buf, type)
      \/ buf' = Cleared(buf) /\ retained' = FALSE
  <2>1. CASE EmitDurable
    BY <2>1 DEF EmitDurable, EventTypes, DurableTypes
  <2>2. CASE EmitLossy
    BY <2>2 DEF EmitLossy, EventTypes
  <2>3. CASE Finish
    BY <2>3 DEF Finish, EventTypes, DurableTypes
  <2>4. CASE Sweep
    BY <2>4 DEF Sweep
  <2>5. ASSUME NEW s \in Subs, Subscribe(s) \/ Disconnect(s) PROVE buf' = buf /\ retained' = retained
    BY <2>5 DEF Subscribe, Disconnect, bufVars
  <2>6. ASSUME NEW s \in Subs, EmitResync(s)
        PROVE  retained' = retained /\ \E type \in EventTypes : buf' = Emit(buf, type)
    BY <2>6 DEF EmitResync, EventTypes, DurableTypes
  <2>7. ASSUME NEW s \in Subs, Step(s), ~EmitResync(s)
        PROVE  buf' = buf /\ retained' = retained
    BY <2>7 DEF Step, HasGap, Replay, MarkTail, YieldReplay, YieldFollow, Snap,
                WakeSync, WakeAsync, Heartbeat, FollowSnapshot, bufVars
  <2>8. CASE UNCHANGED vars
    BY <2>8 DEF vars, bufVars
  <2> QED BY <2>1, <2>2, <2>3, <2>4, <2>5, <2>6, <2>7, <2>8 DEF Next
<1>2. CASE buf' = buf /\ retained' = retained
  BY <1>2 DEF RecordInv, BufInv, BufTyped, BufListed, BufSeqs, BufLimits, BufFull
<1>3. ASSUME retained' = retained, NEW type \in EventTypes, buf' = Emit(buf, type)
      PROVE  BufInv(buf)' /\ BufLimits(buf)' /\ (retained' => BufFull(buf)')
  <2>1. BufInv(Emit(buf, type)) /\ BufLimits(Emit(buf, type))
        /\ (BufFull(buf) => BufFull(Emit(buf, type)))
    BY EmitInv DEF RecordInv
  <2>2. BufInv(buf') /\ BufLimits(buf') /\ (BufFull(buf) => BufFull(buf'))
    BY <2>1, <1>3
  <2> QED BY <2>2, <1>3 DEF RecordInv, BufInv, BufTyped, BufListed, BufSeqs, BufLimits, BufFull
<1>4. CASE buf' = Cleared(buf) /\ retained' = FALSE
  <2>1. /\ buf.dropped \in Nat /\ buf.evictedUpto \in Nat /\ buf.nextSeq \in Nat
        /\ buf.nextSeq > 0 /\ buf.tail \in Nat
        /\ buf.evictedUpto <= buf.nextSeq - 1
    BY DEF RecordInv, BufInv, BufTyped, BufSeqs
  <2>2. /\ buf'.dropped = buf.dropped /\ buf'.tail = buf.dropped
        /\ buf'.durableIndex = <<>> /\ buf'.evictedUpto = buf.evictedUpto
        /\ buf'.nextSeq = buf.nextSeq
        /\ buf'.events \in [(buf.dropped + 1)..buf.dropped -> Event]
    <3>1. buf'.events = [i \in (buf.dropped + 1)..buf.dropped |-> buf.events[i]]
      BY <1>4 DEF Cleared
    <3>2. \A i \in (buf.dropped + 1)..buf.dropped : FALSE
      BY <2>1
    <3> QED BY <1>4, <3>1, <3>2 DEF Cleared
  <2>3. BufTyped(buf)'
    BY <2>1, <2>2 DEF BufTyped
  <2>4. BufListed(buf)' /\ BufSeqs(buf)'
    BY <2>1, <2>2 DEF BufListed, BufSeqs
  <2>5. BufLimits(buf)'
    BY <2>1, <2>2, BufferAssumption DEF BufLimits
  <2> QED BY <2>3, <2>4, <2>5, <1>4 DEF BufInv
<1>5. BufInv(buf)' /\ BufLimits(buf)' /\ (retained' => BufFull(buf)')
  BY <1>1, <1>2, <1>3, <1>4
<1> QED BY <1>1, <1>5

(* A copy of the buffer from absolute index i on.                          *)
LEMMA WindowSeq ==
  ASSUME NEW b, BufTyped(b), NEW i \in Nat, b.dropped <= i
  PROVE  /\ Window(b, i) \in Seq(Event)
         /\ i <= b.tail => Len(Window(b, i)) = b.tail - i
         /\ b.tail <= i => Len(Window(b, i)) = 0
         /\ \A k \in 1..Len(Window(b, i)) :
              /\ i + k \in (b.dropped + 1)..b.tail
              /\ Window(b, i)[k] = b.events[i + k]
<1> DEFINE w == Window(b, i)
<1>1. /\ b.dropped \in Nat /\ b.tail \in Nat
      /\ b.events \in [(b.dropped + 1)..b.tail -> Event]
      /\ w = [k \in 1..(b.tail - i) |-> b.events[i + k]]
  BY DEF BufTyped, Window
<1>2. CASE i <= b.tail
  <2>1. b.tail - i \in Nat
    BY <1>1, <1>2
  <2>2. \A k \in 1..(b.tail - i) : i + k \in (b.dropped + 1)..b.tail
    BY <1>1, <1>2
  <2>3. w \in Seq(Event) /\ Len(w) = b.tail - i
    <3> DEFINE len == b.tail - i
    <3>1. len \in Nat /\ DOMAIN w = 1..len /\ \A k \in 1..len : w[k] \in Event
      BY <1>1, <2>1, <2>2
    <3> HIDE DEF len, w
    <3>2. w = [k \in 1..len |-> w[k]]
      BY <1>1, <3>1 DEF len
    <3>3. w \in Seq(Event)
      BY <3>1, <3>2
    <3> QED BY <3>1, <3>3 DEF len
  <2>4. b.tail <= i => b.tail - i = 0
    BY <1>1, <1>2
  <2> QED BY <1>1, <2>2, <2>3, <2>4
<1>3. CASE ~(i <= b.tail)
  <2>1. 1..(b.tail - i) = {}
    BY <1>1, <1>3
  <2>2. w = <<>>
    BY <1>1, <2>1, SMTT(40)
  <2>3. w \in Seq(Event) /\ Len(w) = 0
    BY <2>2
  <2> HIDE DEF w
  <2> QED BY <1>3, <2>3 DEF w
<1> QED BY <1>2, <1>3

(* max() over the replayed seqs: next_seq-1 if any durable event is        *)
(* buffered, so it exists.                                                 *)
LEMMA TopOfBuffer ==
  ASSUME NEW b, BufInv(b), NEW floor \in Nat
  PROVE  LET top == Top(BufferedSeqs(b, b.dropped), floor) IN
         /\ top \in Nat /\ floor <= top
         /\ top = floor \/ top \in BufferedSeqs(b, b.dropped)
         /\ \A x \in BufferedSeqs(b, b.dropped) : x <= top
<1> DEFINE S == BufferedSeqs(b, b.dropped)
           d == b.durableIndex
           win == (b.dropped + 1)..b.tail
<1>1. S = {b.events[k].seq : k \in {j \in win : b.events[j].seq > 0}}
  BY DEF BufferedSeqs
<1>2. \A k \in win : b.events[k].seq \in Nat /\ b.events[k].seq < b.nextSeq
  BY BufferReads
<1>3. b.nextSeq \in Nat /\ Len(d) \in Nat
  BY DEF BufInv, BufTyped
<1> HIDE DEF S, win
<1>4. \A x \in S : x \in Nat /\ x <= b.nextSeq - 1
  BY <1>1, <1>2, <1>3
<1>5. CASE \E x \in S : x > floor
  <2>1. PICK k \in win : b.events[k].seq > 0
    BY <1>1, <1>5
  <2>2. Len(d) \in 1..Len(d)
    <3>1. PICK i \in 1..Len(d) : d[i] = k
      BY <2>1 DEF BufInv, BufListed, win
    <3> QED BY <3>1, <1>3
  <2>3. d[Len(d)] \in win /\ b.events[d[Len(d)]].seq = b.nextSeq - 1 - Len(d) + Len(d)
    BY <2>2 DEF BufInv, BufListed, BufSeqs, win
  <2>4. b.events[d[Len(d)]].seq = b.nextSeq - 1
    BY <2>3, <1>3
  <2>5. PICK x \in S : x > floor
    BY <1>5
  <2>6. b.nextSeq - 1 > 0
    BY <2>5, <1>4, <1>3
  <2>7. b.nextSeq - 1 \in S
    BY <2>3, <2>4, <2>6, <1>1
  <2>8. \E y \in S : \A z \in S : z <= y
    BY <2>7, <1>4
  <2> DEFINE top == CHOOSE y \in S : \A z \in S : z <= y
  <2>9. top \in S /\ \A z \in S : z <= top
    BY <2>8
  <2>10. Top(S, floor) = top
    BY <1>5 DEF Top
  <2> HIDE DEF top
  <2>11. top \in Nat /\ floor <= top
    BY <2>5, <2>9, <1>4
  <2> QED BY <2>9, <2>10, <2>11 DEF S
<1>6. CASE ~\E x \in S : x > floor
  <2>1. Top(S, floor) = floor
    BY <1>6 DEF Top
  <2>2. \A x \in S : x <= floor
    BY <1>6, <1>4
  <2> QED BY <2>1, <2>2 DEF S
<1> QED BY <1>5, <1>6

(* Every step keeps the types; the buffer half comes from BufferStep.      *)
LEMMA TypeStep ==
  ASSUME IInv, [Next]_vars
  PROVE  TypeOK'
<1> USE DEF IInv, RecordInv, TypeOK
<1>1. BufTyped(buf)'
  BY BufferStep DEF BufInv
<1>2. /\ buf.nextSeq \in Nat /\ buf.tail \in Nat /\ buf.dropped \in Nat
  BY DEF BufTyped
<1>3. CASE EmitDurable
  BY <1>1, <1>3 DEF EmitDurable, genVars, cliVars, GenTyped, ClientTyped
<1>4. CASE EmitLossy
  BY <1>1, <1>4 DEF EmitLossy, genVars, cliVars, GenTyped, ClientTyped
<1>5. CASE Finish
  BY <1>1, <1>2, <1>5 DEF Finish, genVars, cliVars, GenTyped, ClientTyped
<1>6. CASE Sweep
  BY <1>1, <1>6 DEF Sweep, genVars, cliVars, GenTyped, ClientTyped
<1>7. ASSUME NEW s \in Subs, Subscribe(s) PROVE TypeOK'
  <2>1. GenTyped'
    BY <1>7 DEF Subscribe, Goto, GenTyped, ClientTyped, Labels
  <2>2. ClientTyped'
    BY <1>7 DEF Subscribe, ClientTyped
  <2> QED BY <1>1, <1>7, <2>1, <2>2 DEF Subscribe, bufVars
<1>8. ASSUME NEW s \in Subs, Disconnect(s) PROVE TypeOK'
  <2>1. GenTyped' /\ ClientTyped'
    BY <1>8 DEF Disconnect, Goto, GenTyped, ClientTyped, Labels, cliVars
  <2> QED BY <1>1, <1>8, <2>1 DEF Disconnect, bufVars
<1>9. ASSUME NEW s \in Subs, Step(s) PROVE GenTyped' /\ ClientTyped'
  <2>1. CASE HasGap(s)
    BY <2>1 DEF HasGap, Goto, GenTyped, ClientTyped, Labels, cliVars
  <2>2. CASE Replay(s)
    <3>1. Window(buf, buf.dropped) \in Seq(Event)
      BY <1>2, WindowSeq
    <3>2. Top(BufferedSeqs(buf, buf.dropped), after[s]) \in Nat
      BY TopOfBuffer DEF GenTyped
    <3>3. GenTyped'
      BY <2>2, <3>1, <3>2, <1>2 DEF Replay, Goto, GenTyped, Labels
    <3>4. ClientTyped'
      BY <2>2 DEF Replay, ClientTyped
    <3> QED BY <3>3, <3>4
  <2>3. CASE EmitResync(s)
    <3>1. Larger(delivered[s], buf.nextSeq) \in Nat
      BY <1>2 DEF Larger, GenTyped
    <3> QED BY <2>3, <3>1 DEF EmitResync, Goto, GenTyped, ClientTyped, Labels, cliVars
  <2>4. CASE MarkTail(s)
    <3>1. [type |-> "resync", seq |-> delivered[s]] \in Event
      BY DEF GenTyped, Event, EventTypes, DurableTypes
    <3>2. <<[type |-> "resync", seq |-> delivered[s]]>> \in Seq(Event)
      BY <3>1
    <3> QED BY <2>4, <3>2, <1>2 DEF MarkTail, Goto, GenTyped, ClientTyped, Labels, cliVars
  <2>5. ASSUME pc[s] \in {"replaying", "following"}
        PROVE  /\ Head(queue[s]) \in Event /\ Head(queue[s]).seq \in Nat
               /\ Tail(queue[s]) \in Seq(Event)
    <3>1. queue[s] \in Seq(Event) /\ Len(queue[s]) > 0
      BY <2>5 DEF QueueInv, GenTyped
    <3>2. Head(queue[s]) \in Event /\ Tail(queue[s]) \in Seq(Event)
      BY <3>1
    <3> QED BY <3>2 DEF Event
  <2>6. ASSUME Head(queue[s]).seq \in Nat, Receive(s, Head(queue[s])) PROVE ClientTyped'
    <3>1. 1..(buf.nextSeq - 1) \subseteq Nat
      BY <1>2
    <3> QED BY <2>6, <3>1 DEF Receive, ClientTyped
  <2>7. CASE YieldReplay(s)
    <3>1. pc[s] = "replaying"
      BY <2>7 DEF YieldReplay
    <3>2. GenTyped'
      BY <2>5, <2>7, <3>1 DEF YieldReplay, Goto, GenTyped, Labels
    <3>3. ClientTyped'
      BY <2>5, <2>6, <2>7, <3>1 DEF YieldReplay, cliVars, ClientTyped
    <3> QED BY <3>2, <3>3
  <2>8. CASE YieldFollow(s)
    <3>1. pc[s] = "following"
      BY <2>8 DEF YieldFollow
    <3>2. delivered' \in [Subs -> Nat]
      BY <2>5, <2>8, <3>1 DEF YieldFollow, GenTyped
    <3>3. GenTyped'
      <4>1. queue' \in [Subs -> Seq(Event)]
        BY <2>5, <2>8, <3>1 DEF YieldFollow, GenTyped
      <4>2. pc' \in [Subs -> Labels]
        BY <2>8 DEF YieldFollow, Goto, GenTyped, Labels
      <4> QED BY <2>8, <3>2, <4>1, <4>2 DEF YieldFollow, GenTyped
    <3>4. ClientTyped'
      BY <2>5, <2>6, <2>8, <3>1 DEF YieldFollow, cliVars, ClientTyped
    <3> QED BY <3>3, <3>4
  <2>9. ASSUME NEW l \in Labels, FollowSnapshot(s, l) PROVE GenTyped' /\ ClientTyped'
    <3>1. Fresh(s) \in Seq(Event)
      <4>1. ~Behind(s) => Window(buf, index[s]) \in Seq(Event)
        <5>1. index[s] \in Nat
          BY DEF GenTyped
        <5> QED BY <5>1, <1>2, WindowSeq DEF Behind
      <4> QED BY <4>1 DEF Fresh
    <3>2. GenTyped'
      BY <2>9, <3>1, <1>2 DEF FollowSnapshot, Goto, GenTyped, Labels
    <3>3. ClientTyped'
      BY <2>9 DEF FollowSnapshot, ClientTyped
    <3> QED BY <3>2, <3>3
  <2>10. CASE Snap(s)
    BY <2>9, <2>10 DEF Snap, Labels
  <2>11. CASE WakeSync(s)
    BY <2>9, <2>11 DEF WakeSync, Labels
  <2>12. CASE WakeAsync(s)
    BY <2>12 DEF WakeAsync, Goto, GenTyped, ClientTyped, Labels, cliVars
  <2>13. CASE Heartbeat(s)
    BY <2>13 DEF Heartbeat, Goto, GenTyped, ClientTyped, Labels, cliVars
  <2> QED BY <1>9, <2>1, <2>2, <2>3, <2>4, <2>7, <2>8, <2>10, <2>11, <2>12, <2>13 DEF Step
<1>10. ASSUME NEW s \in Subs, Step(s)
       PROVE  status' = status /\ retained' = retained /\ lossy' = lossy /\ termSeq' = termSeq
  BY <1>10 DEF Step, HasGap, Replay, EmitResync, MarkTail, YieldReplay, YieldFollow,
               Snap, WakeSync, WakeAsync, Heartbeat, FollowSnapshot, bufVars
<1>11. ASSUME NEW s \in Subs, Step(s) PROVE TypeOK'
  BY <1>1, <1>9, <1>10, <1>11
<1>12. CASE UNCHANGED vars
  BY <1>1, <1>12 DEF vars, bufVars, genVars, cliVars, GenTyped, ClientTyped
<1> QED BY <1>3, <1>4, <1>5, <1>6, <1>7, <1>8, <1>11, <1>12 DEF Next

(* Between two critical sections the buffer only grows at its tail and     *)
(* shrinks at its head, as long as the record is retained.                 *)
LEMMA BufferGrows ==
  ASSUME RecordInv, [Next]_vars
  PROVE  /\ buf.nextSeq <= buf'.nextSeq
         /\ retained' =>
              /\ buf.tail <= buf'.tail
              /\ \A k \in (buf'.dropped + 1)..buf'.tail :
                   k <= buf.tail => /\ k \in (buf.dropped + 1)..buf.tail
                                    /\ buf'.events[k] = buf.events[k]
<1>1. buf.nextSeq \in Nat /\ buf.tail \in Nat /\ buf.dropped \in Nat
  BY DEF RecordInv, BufInv, BufTyped
<1>2. CASE buf' = buf
  BY <1>1, <1>2
<1>3. ASSUME NEW type \in EventTypes, buf' = Emit(buf, type)
      PROVE  /\ buf.nextSeq <= buf'.nextSeq /\ buf.tail <= buf'.tail
             /\ \A k \in (buf'.dropped + 1)..buf'.tail :
                  k <= buf.tail => /\ k \in (buf.dropped + 1)..buf.tail
                                   /\ buf'.events[k] = buf.events[k]
  <2>1. /\ buf'.tail = buf.tail + 1
        /\ buf'.nextSeq = IF type \in DurableTypes THEN buf.nextSeq + 1 ELSE buf.nextSeq
        /\ \A k \in (buf'.dropped + 1)..buf'.tail :
             k <= buf.tail => /\ k \in (buf.dropped + 1)..buf.tail
                              /\ buf'.events[k] = buf.events[k]
    BY <1>3, EmitInv DEF RecordInv
  <2> QED BY <1>1, <2>1
<1>4. CASE buf' = Cleared(buf) /\ ~retained'
  <2>1. buf'.nextSeq = buf.nextSeq
    BY <1>4 DEF Cleared
  <2> QED BY <1>1, <1>4, <2>1
<1> QED BY <1>2, <1>3, <1>4, BufferStep

Same(s) ==
  /\ pc'[s] = pc[s] /\ after'[s] = after[s] /\ delivered'[s] = delivered[s]
  /\ index'[s] = index[s] /\ queue'[s] = queue[s]
  /\ cursor'[s] = cursor[s] /\ seen'[s] = seen[s]
  /\ overtaken'[s] = overtaken[s] /\ lagged'[s] = lagged[s]

SubInv(s) ==
  /\ QueueInv(s) /\ LocalInv(s)
  /\ retained => CoverInv(s)

(* The types of one subscriber's state, in the form the steps below need.  *)
LEMMA SubTyped ==
  ASSUME TypeOK, NEW s \in Subs
  PROVE  /\ cursor[s] \in Nat /\ delivered[s] \in Nat /\ index[s] \in Nat
         /\ after[s] \in Nat /\ seen[s] \subseteq Nat
         /\ overtaken[s] \in BOOLEAN /\ lagged[s] \in BOOLEAN
         /\ queue[s] \in Seq(Event) /\ Len(queue[s]) \in Nat
         /\ \A k \in 1..Len(queue[s]) : queue[s][k].seq \in Nat
         /\ buf.nextSeq \in Nat /\ buf.nextSeq > 0
         /\ buf.tail \in Nat /\ buf.dropped \in Nat /\ buf.evictedUpto \in Nat
<1>1. /\ cursor[s] \in Nat /\ delivered[s] \in Nat /\ index[s] \in Nat
      /\ after[s] \in Nat /\ seen[s] \subseteq Nat
      /\ overtaken[s] \in BOOLEAN /\ lagged[s] \in BOOLEAN
      /\ queue[s] \in Seq(Event)
  BY DEF TypeOK, GenTyped, ClientTyped
<1>2. Len(queue[s]) \in Nat /\ \A k \in 1..Len(queue[s]) : queue[s][k] \in Event
  BY <1>1
<1>3. \A k \in 1..Len(queue[s]) : queue[s][k].seq \in Nat
  BY <1>2 DEF Event
<1> QED BY <1>1, <1>2, <1>3 DEF TypeOK, BufTyped

(* Whatever the others do, a subscriber that does not move keeps its part  *)
(* of the invariant: what it passed stays passed.                          *)
LEMMA OthersKeep ==
  ASSUME IInv, [Next]_vars, TypeOK', NEW s \in Subs, Same(s)
  PROVE  SubInv(s)'
<1>1. /\ buf.nextSeq <= buf'.nextSeq
      /\ retained' =>
           /\ buf.tail <= buf'.tail
           /\ \A k \in (buf'.dropped + 1)..buf'.tail :
                k <= buf.tail => /\ k \in (buf.dropped + 1)..buf.tail
                                 /\ buf'.events[k] = buf.events[k]
  BY BufferGrows DEF IInv
<1>2. retained' => retained
  BY BufferStep DEF IInv
<1>3. /\ buf.nextSeq \in Nat /\ buf'.nextSeq \in Nat /\ buf.tail \in Nat /\ buf'.tail \in Nat
      /\ buf'.dropped \in Nat
      /\ cursor[s] \in Nat /\ delivered[s] \in Nat /\ index[s] \in Nat
      /\ queue[s] \in Seq(Event) /\ Len(queue[s]) \in Nat
      /\ \A k \in 1..Len(queue[s]) : queue[s][k].seq \in Nat
  <2>1. buf'.nextSeq \in Nat /\ buf'.tail \in Nat /\ buf'.dropped \in Nat
    BY DEF TypeOK, BufTyped
  <2> QED BY <2>1, SubTyped DEF IInv, RecordInv
<1>4. QueueInv(s) /\ LocalInv(s) /\ (retained => CoverInv(s))
  BY DEF IInv
<1>5. QueueInv(s)'
  <2>1. \A k \in 1..Len(queue[s]) : queue[s][k].seq < buf'.nextSeq
    BY <1>1, <1>3, <1>4 DEF QueueInv
  <2> QED BY <1>4, <2>1 DEF QueueInv, Same
<1>6. LocalInv(s)'
  <2>1. cursor[s] < buf'.nextSeq /\ delivered[s] < buf'.nextSeq
    BY <1>1, <1>3, <1>4 DEF LocalInv
  <2> QED BY <1>4, <2>1 DEF LocalInv, Same
<1>7. ASSUME retained' PROVE CoverInv(s)'
  <2>1. CoverInv(s)
    BY <1>2, <1>4, <1>7
  <2>2. pc'[s] \in Open => index'[s] <= buf'.tail
    BY <1>1, <1>3, <1>7, <2>1 DEF CoverInv, Same
  <2>3. Undisturbed(s)' => Undisturbed(s) /\ (1..cursor[s] \subseteq seen[s])'
    BY <2>1 DEF CoverInv, Undisturbed, Same
  <2>4. ASSUME Undisturbed(s), PassedInv(s) PROVE PassedInv(s)'
    <3> SUFFICES ASSUME pc[s] \in Open, ~ResyncAhead(s),
                        NEW k \in (buf'.dropped + 1)..buf'.tail,
                        k <= index[s], buf'.events[k].seq > 0
                 PROVE  buf'.events[k].seq \in seen[s] \cup Pending(s)
      BY DEF PassedInv, ResyncAhead, Pending, Same
    <3>1. index[s] <= buf.tail
      BY <2>1 DEF CoverInv
    <3>2. k <= buf.tail
      BY <1>3, <3>1
    <3>3. k \in (buf.dropped + 1)..buf.tail /\ buf'.events[k] = buf.events[k]
      BY <1>1, <1>7, <3>2
    <3> QED BY <2>4, <3>3 DEF PassedInv
  <2>5. QueueWhole(s) => QueueWhole(s)'
    BY DEF QueueWhole, Same
  <2> QED BY <2>1, <2>2, <2>3, <2>4, <2>5 DEF CoverInv
<1> QED BY <1>5, <1>6, <1>7 DEF SubInv

(* A subscriber whose queue is empty and which is not yet, or no longer,   *)
(* reading the buffer.                                                     *)
LEMMA ClosedStep ==
  ASSUME IInv, [Next]_vars, NEW s \in Subs,
         Subscribe(s) \/ Disconnect(s) \/ HasGap(s) \/ EmitResync(s)
  PROVE  SubInv(s)'
<1>0. SubInv(s) /\ TypeOK /\ TypeOK'
  BY TypeStep DEF IInv, SubInv, RecordInv
<1>1. /\ cursor[s] \in Nat /\ delivered[s] \in Nat /\ buf.nextSeq \in Nat
      /\ queue[s] \in Seq(Event) /\ Len(queue[s]) \in Nat
  BY <1>0, SubTyped
<1>2. /\ cursor'[s] = cursor[s] /\ seen'[s] = seen[s] /\ overtaken'[s] = overtaken[s]
      /\ lagged'[s] = lagged[s] /\ pc'[s] \in {"check", "off", "gap", "replay", "mark"}
  BY <1>0 DEF Subscribe, Disconnect, HasGap, EmitResync, Goto, cliVars, TypeOK, GenTyped, Labels
<1>3. Len(queue'[s]) = 0
  <2>1. Subscribe(s) \/ Disconnect(s) => queue'[s] = <<>>
    BY <1>0 DEF Subscribe, Disconnect, TypeOK, GenTyped
  <2>2. HasGap(s) \/ EmitResync(s) => queue'[s] = queue[s] /\ Len(queue[s]) = 0
    BY <1>0 DEF HasGap, EmitResync, SubInv, QueueInv
  <2> QED BY <2>1, <2>2
<1>4. QueueInv(s)'
  BY <1>2, <1>3 DEF QueueInv
<1>5. LocalInv(s)'
  <2>1. buf.nextSeq <= buf'.nextSeq /\ cursor[s] < buf.nextSeq
        /\ buf'.nextSeq \in Nat
    BY <1>0, BufferGrows DEF IInv, SubInv, LocalInv, TypeOK, BufTyped
  <2>2. CASE Subscribe(s)
    <3>1. after'[s] = cursor[s] /\ delivered'[s] = cursor[s] /\ pc'[s] = "check"
      BY <1>0, <2>2 DEF Subscribe, Goto, TypeOK, GenTyped
    <3> QED BY <1>1, <1>2, <2>1, <3>1 DEF LocalInv, Follow
  <2>3. CASE Disconnect(s)
    <3>1. delivered'[s] = 0 /\ pc'[s] = "off"
      BY <1>0, <2>3 DEF Disconnect, Goto, TypeOK, GenTyped
    <3>2. buf'.nextSeq > 0
      BY <1>0 DEF TypeOK, BufTyped
    <3> QED BY <1>1, <1>2, <2>1, <3>1, <3>2 DEF LocalInv, Follow
  <2>4. CASE HasGap(s)
    <3>1. /\ after'[s] = after[s] /\ delivered'[s] = delivered[s]
          /\ pc[s] = "check" /\ pc'[s] \in {"gap", "replay"}
          /\ buf'.nextSeq = buf.nextSeq
      BY <1>0, <2>4 DEF HasGap, Goto, TypeOK, GenTyped, bufVars
    <3>2. after[s] = cursor[s] /\ delivered[s] = cursor[s]
      BY <1>0, <3>1 DEF SubInv, LocalInv
    <3> QED BY <1>1, <1>2, <2>1, <3>1, <3>2 DEF LocalInv, Follow
  <2>5. CASE EmitResync(s)
    <3>1. /\ after'[s] = after[s] /\ delivered'[s] = Larger(delivered[s], buf.nextSeq)
          /\ pc[s] = "gap" /\ pc'[s] = "mark" /\ buf' = Emit(buf, "resync")
      BY <1>0, <2>5 DEF EmitResync, Goto, TypeOK, GenTyped
    <3>2. buf'.nextSeq = buf.nextSeq + 1
      BY <3>1, EmitInv DEF IInv, RecordInv, EventTypes, DurableTypes
    <3>3. delivered'[s] = buf.nextSeq
      BY <1>0, <1>1, <3>1 DEF Larger, SubInv, LocalInv
    <3>4. after[s] <= cursor[s]
      BY <1>0, <3>1 DEF SubInv, LocalInv
    <3> QED BY <1>1, <1>2, <2>1, <3>1, <3>2, <3>3, <3>4 DEF LocalInv, Follow
  <2> QED BY <2>2, <2>3, <2>4, <2>5
<1>6. retained' => CoverInv(s)'
  <2>1. retained' => retained
    BY BufferStep DEF IInv
  <2>2. pc'[s] \notin Open
    BY <1>2 DEF Open, Follow
  <2>3. Undisturbed(s)' => Undisturbed(s)
    BY <1>2 DEF Undisturbed
  <2>4. retained' /\ Undisturbed(s)' => (1..cursor[s] \subseteq seen[s])'
    BY <1>0, <1>2, <2>1, <2>3 DEF SubInv, CoverInv
  <2>5. QueueWhole(s)' /\ PassedInv(s)'
    BY <1>3, <2>2 DEF QueueWhole, PassedInv
  <2> QED BY <2>2, <2>4, <2>5 DEF CoverInv
<1> QED BY <1>4, <1>5, <1>6 DEF SubInv

(* Waiting, waking up without a snapshot, and the end of a heartbeat.      *)
LEMMA IdleStep ==
  ASSUME IInv, [Next]_vars, NEW s \in Subs, WakeAsync(s) \/ Heartbeat(s)
  PROVE  SubInv(s)'
<1>0. SubInv(s) /\ TypeOK /\ TypeOK'
  BY TypeStep DEF IInv, SubInv, RecordInv
<1>1. /\ cursor' = cursor /\ seen' = seen /\ overtaken' = overtaken /\ lagged' = lagged
      /\ buf' = buf /\ retained' = retained /\ queue' = queue /\ index' = index
      /\ delivered' = delivered /\ after' = after
      /\ pc[s] \in {"wait", "idle"} /\ pc'[s] \in {"snap", "done"}
  BY <1>0 DEF WakeAsync, Heartbeat, Goto, cliVars, bufVars, TypeOK, GenTyped
<1>2. QueueInv(s)' /\ LocalInv(s)'
  BY <1>0, <1>1 DEF SubInv, QueueInv, LocalInv, Follow
<1>3. retained' => CoverInv(s)'
  BY <1>0, <1>1 DEF SubInv, CoverInv, Undisturbed, PassedInv, QueueWhole, ResyncAhead,
                    Pending, Open, Follow
<1> QED BY <1>2, <1>3 DEF SubInv

(* What taking the head off a non-empty queue of events leaves.            *)
LEMMA TailFacts ==
  ASSUME NEW q \in Seq(Event), Len(q) > 0
  PROVE  /\ Head(q) = q[1] /\ q[1] \in Event /\ q[1].seq \in Nat
         /\ Tail(q) \in Seq(Event) /\ Len(Tail(q)) = Len(q) - 1
         /\ 1 \in 1..Len(q)
         /\ \A k \in 1..Len(Tail(q)) : k + 1 \in 1..Len(q) /\ Tail(q)[k] = q[k + 1]
<1>1. Len(q) \in Nat /\ 1 \in 1..Len(q)
  OBVIOUS
<1>2. q[1] \in Event /\ Head(q) = q[1]
  BY <1>1
<1>3. Tail(q) \in Seq(Event) /\ Len(Tail(q)) = Len(q) - 1
  BY <1>1
<1>4. \A k \in 1..(Len(q) - 1) : k + 1 \in 1..Len(q) /\ Tail(q)[k] = q[k + 1]
  BY <1>1
<1> QED BY <1>1, <1>2, <1>3, <1>4 DEF Event

(* The resync event is queued: whatever was missed is ahead of it.         *)
LEMMA MarkTailStep ==
  ASSUME IInv, [Next]_vars, NEW s \in Subs, MarkTail(s)
  PROVE  SubInv(s)'
<1> DEFINE e == [type |-> "resync", seq |-> delivered[s]]
<1>0. SubInv(s) /\ TypeOK /\ TypeOK'
  BY TypeStep DEF IInv, SubInv, RecordInv
<1>1. /\ pc[s] = "mark" /\ pc'[s] = "replaying" /\ queue'[s] = <<e>>
      /\ index'[s] = buf.tail /\ buf' = buf /\ retained' = retained
      /\ after'[s] = after[s] /\ delivered'[s] = delivered[s]
      /\ cursor' = cursor /\ seen' = seen /\ overtaken' = overtaken /\ lagged' = lagged
  BY <1>0 DEF MarkTail, Goto, bufVars, cliVars, TypeOK, GenTyped
<1>2. /\ Len(queue'[s]) = 1 /\ queue'[s][1] = e
      /\ e.type = "resync" /\ e.seq = delivered[s]
      /\ \A k \in 1..1 : k = 1
  BY <1>1
<1>3. /\ cursor[s] \in Nat /\ delivered[s] \in Nat /\ buf.nextSeq \in Nat
      /\ after[s] \in Nat /\ buf.tail \in Nat
  BY <1>0, SubTyped
<1>4. /\ cursor[s] < delivered[s] /\ delivered[s] < buf.nextSeq /\ after[s] <= cursor[s]
      /\ cursor[s] < buf.nextSeq
  BY <1>0, <1>1 DEF SubInv, LocalInv
<1> HIDE DEF e
<1>5. QueueInv(s)'
  BY <1>1, <1>2, <1>3, <1>4 DEF QueueInv
<1>6. LocalInv(s)'
  BY <1>1, <1>2, <1>3, <1>4 DEF LocalInv, Follow
<1>7. ResyncAhead(s)'
  BY <1>1, <1>2, <1>4 DEF ResyncAhead
<1>8. retained' => CoverInv(s)'
  <2>1. QueueWhole(s)' /\ PassedInv(s)'
    BY <1>2, <1>7 DEF QueueWhole, PassedInv
  <2>2. index'[s] <= buf'.tail
    BY <1>1, <1>3
  <2> QED BY <1>0, <1>1, <2>1, <2>2 DEF SubInv, CoverInv, Undisturbed
<1> QED BY <1>5, <1>6, <1>8 DEF SubInv

(* A subscriber that has everything up to its cursor, and everything       *)
(* buffered at or before index i, misses nothing by copying the rest.      *)
LEMMA WindowCovers ==
  ASSUME IInv, retained, NEW s \in Subs, NEW i \in Nat,
         buf.dropped <= i, i <= buf.tail,
         buf.evictedUpto <= cursor[s], 1..cursor[s] \subseteq seen[s],
         \A k \in (buf.dropped + 1)..buf.tail :
           k <= i /\ buf.events[k].seq > 0 => buf.events[k].seq \in seen[s],
         queue'[s] = Window(buf, i), buf' = buf, seen'[s] = seen[s]
  PROVE  PassedInv(s)' /\ QueueWhole(s)'
<1>1. /\ cursor[s] \in Nat /\ buf.nextSeq \in Nat /\ buf.tail \in Nat
      /\ buf.dropped \in Nat /\ buf.evictedUpto \in Nat
  BY SubTyped DEF IInv, RecordInv
<1>2. /\ Len(queue'[s]) = buf.tail - i
      /\ \A k \in 1..Len(queue'[s]) :
           /\ i + k \in (buf.dropped + 1)..buf.tail
           /\ queue'[s][k] = buf.events[i + k]
  BY WindowSeq DEF IInv, RecordInv, BufInv
<1>3. /\ \A k \in (buf.dropped + 1)..buf.tail :
           buf.events[k].seq \in Nat /\ buf.events[k].seq < buf.nextSeq
      /\ \A k, m \in (buf.dropped + 1)..buf.tail :
           k < m /\ buf.events[k].seq > 0 /\ buf.events[m].seq > 0
             => buf.events[k].seq < buf.events[m].seq
      /\ \A n \in Nat : buf.evictedUpto < n /\ n < buf.nextSeq =>
           \E k \in (buf.dropped + 1)..buf.tail : buf.events[k].seq = n
  BY BufferReads DEF IInv, RecordInv
<1>4. PassedInv(s)'
  <2> SUFFICES ASSUME NEW k \in (buf.dropped + 1)..buf.tail, buf.events[k].seq > 0
               PROVE  buf.events[k].seq \in seen[s] \cup Pending(s)'
    BY DEF PassedInv
  <2>1. CASE k <= i
    BY <2>1
  <2>2. CASE ~(k <= i)
    <3>1. k - i \in 1..(buf.tail - i) /\ i + (k - i) = k
      BY <1>1, <2>2
    <3>2. queue'[s][k - i] = buf.events[k] /\ k - i \in 1..Len(queue'[s])
      BY <1>2, <3>1
    <3>3. buf.events[k].seq \in Pending(s)'
      BY <3>2 DEF Pending
    <3> QED BY <3>3
  <2> QED BY <2>1, <2>2
<1>5. QueueWhole(s)'
  <2> SUFFICES ASSUME NEW k \in 1..Len(queue'[s]), NEW n \in 1..(queue'[s][k].seq - 1)
               PROVE  n \in seen[s] \/ \E m \in 1..(k - 1) : queue'[s][m].seq = n
    BY DEF QueueWhole
  <2>1. /\ i + k \in (buf.dropped + 1)..buf.tail /\ queue'[s][k] = buf.events[i + k]
        /\ buf.events[i + k].seq \in Nat /\ buf.events[i + k].seq < buf.nextSeq
    BY <1>2, <1>3
  <2>0. n \in 1..(buf.events[i + k].seq - 1)
    BY <2>1
  <2>2. /\ n \in Nat /\ n > 0 /\ n < buf.nextSeq /\ n < buf.events[i + k].seq
        /\ buf.events[i + k].seq > 0
    BY <2>0, <2>1, <1>1, BelowSeq
  <2>3. CASE n <= cursor[s]
    <3>1. n \in 1..cursor[s]
      BY <2>2, <2>3, <1>1
    <3> QED BY <3>1
  <2>4. CASE ~(n <= cursor[s])
    <3>1. buf.evictedUpto < n
      BY <2>2, <2>4, <1>1
    <3>2. PICK j \in (buf.dropped + 1)..buf.tail : buf.events[j].seq = n
      BY <3>1, <2>2, <1>3
    <3>3. CASE j <= i
      BY <3>2, <3>3, <2>2
    <3>4. CASE ~(j <= i)
      <4>1. j < i + k
        <5>1. j # i + k
          BY <3>2, <2>2, SMTT(40)
        <5>2. ~(i + k < j)
          <6>1. i + k < j => buf.events[i + k].seq < buf.events[j].seq
            BY <1>3, <2>1, <2>2, <3>2
          <6> QED BY <6>1, <3>2, <2>1, <2>2
        <5>3. j \in Int /\ i + k \in Int
          BY <1>1, <2>1
        <5> QED BY <5>1, <5>2, <5>3
      <4>2. j - i \in 1..(k - 1) /\ i + (j - i) = j /\ j - i \in 1..Len(queue'[s])
        BY <4>1, <3>4, <1>1, <1>2
      <4>3. queue'[s][j - i] = buf.events[j]
        BY <4>2, <1>2
      <4> QED BY <4>2, <4>3, <3>2
    <3> QED BY <3>3, <3>4
  <2> QED BY <2>3, <2>4
<1> QED BY <1>4, <1>5

(* Replay, second critical section.                                        *)
LEMMA ReplayStep ==
  ASSUME IInv, [Next]_vars, NEW s \in Subs, Replay(s)
  PROVE  SubInv(s)'
<1> DEFINE top == Top(BufferedSeqs(buf, buf.dropped), after[s])
<1>0. SubInv(s) /\ TypeOK /\ TypeOK' /\ BufInv(buf) /\ BufTyped(buf)
  BY TypeStep DEF IInv, SubInv, RecordInv, BufInv
<1>1. /\ pc[s] = "replay" /\ queue'[s] = Window(buf, buf.dropped)
      /\ pc'[s] = IF buf.tail = buf.dropped THEN "snap" ELSE "replaying"
      /\ index'[s] = buf.tail /\ delivered'[s] = top
      /\ overtaken'[s] = (overtaken[s] \/ buf.evictedUpto > after[s])
      /\ buf' = buf /\ retained' = retained /\ after'[s] = after[s]
      /\ cursor'[s] = cursor[s] /\ seen'[s] = seen[s] /\ lagged'[s] = lagged[s]
  BY <1>0 DEF Replay, Goto, bufVars, TypeOK, GenTyped, ClientTyped
<1>2. /\ cursor[s] \in Nat /\ after[s] \in Nat /\ buf.nextSeq \in Nat /\ buf.tail \in Nat
      /\ buf.dropped \in Nat /\ buf.evictedUpto \in Nat /\ buf.dropped <= buf.tail
      /\ buf.nextSeq > 0
  BY <1>0, SubTyped DEF BufTyped
<1>3. after[s] = cursor[s] /\ cursor[s] < buf.nextSeq
  BY <1>0, <1>1 DEF SubInv, LocalInv
<1>4. /\ Len(queue'[s]) = buf.tail - buf.dropped
      /\ \A k \in 1..Len(queue'[s]) :
           /\ buf.dropped + k \in (buf.dropped + 1)..buf.tail
           /\ queue'[s][k] = buf.events[buf.dropped + k]
  BY <1>0, <1>1, <1>2, WindowSeq, SMTT(40)
<1>5. /\ top \in Nat /\ after[s] <= top
      /\ top = after[s] \/ top \in BufferedSeqs(buf, buf.dropped)
      /\ \A x \in BufferedSeqs(buf, buf.dropped) : x <= top
  BY <1>0, <1>2, TopOfBuffer
<1>6. /\ \A k \in (buf.dropped + 1)..buf.tail :
           buf.events[k].seq \in Nat /\ buf.events[k].seq < buf.nextSeq
      /\ \A k, m \in (buf.dropped + 1)..buf.tail :
           k < m /\ buf.events[k].seq > 0 /\ buf.events[m].seq > 0
             => buf.events[k].seq < buf.events[m].seq
  BY <1>0, BufferReads
<1>7. BufferedSeqs(buf, buf.dropped) =
        {buf.events[k].seq : k \in {j \in (buf.dropped + 1)..buf.tail : buf.events[j].seq > 0}}
  BY DEF BufferedSeqs
<1> HIDE DEF top
<1>8. QueueInv(s)'
  <2>1. buf.tail = buf.dropped => Len(queue'[s]) = 0
    BY <1>2, <1>4
  <2>2. buf.tail # buf.dropped => Len(queue'[s]) > 0
    BY <1>2, <1>4
  <2>3. \A k \in 1..Len(queue'[s]) : queue'[s][k].seq < buf.nextSeq
    BY <1>4, <1>6
  <2>4. ASSUME NEW k \in 1..Len(queue'[s]), NEW m \in 1..Len(queue'[s]),
               k < m, queue'[s][k].seq > 0, queue'[s][m].seq > 0
        PROVE  queue'[s][k].seq < queue'[s][m].seq
    <3>1. buf.dropped + k < buf.dropped + m
      BY <2>4, <1>2, <1>4
    <3> QED BY <2>4, <3>1, <1>4, <1>6
  <2> QED BY <1>1, <2>1, <2>2, <2>3, <2>4 DEF QueueInv
<1>9. LocalInv(s)'
  <2>1. \A k \in 1..Len(queue'[s]) : queue'[s][k].seq <= top
    <3> TAKE k \in 1..Len(queue'[s])
    <3>1. buf.dropped + k \in (buf.dropped + 1)..buf.tail
          /\ queue'[s][k] = buf.events[buf.dropped + k] /\ queue'[s][k].seq \in Nat
      BY <1>4, <1>6
    <3>2. CASE queue'[s][k].seq > 0
      <4>1. queue'[s][k].seq \in BufferedSeqs(buf, buf.dropped)
        BY <3>1, <3>2, <1>7
      <4> QED BY <4>1, <1>5
    <3>3. CASE ~(queue'[s][k].seq > 0)
      BY <3>1, <3>3, <1>5
    <3> QED BY <3>2, <3>3
  <2>2. top < buf.nextSeq
    BY <1>2, <1>3, <1>5, <1>6, <1>7
  <2>3. top = cursor[s] \/ \E k \in 1..Len(queue'[s]) : queue'[s][k].seq = top
    <3>1. ASSUME top \in BufferedSeqs(buf, buf.dropped)
          PROVE  \E k \in 1..Len(queue'[s]) : queue'[s][k].seq = top
      <4>1. PICK j \in (buf.dropped + 1)..buf.tail : buf.events[j].seq = top
        BY <3>1, <1>7
      <4>2. j - buf.dropped \in 1..Len(queue'[s]) /\ buf.dropped + (j - buf.dropped) = j
        BY <1>2, <1>4, SMTT(40)
      <4>3. queue'[s][j - buf.dropped].seq = top
        BY <4>1, <4>2, <1>4
      <4> QED BY <4>2, <4>3
    <3> QED BY <3>1, <1>3, <1>5
  <2>4. buf.tail = buf.dropped => top = cursor[s]
    BY <2>3, <1>2, <1>4
  <2> QED BY <1>1, <1>2, <1>3, <1>5, <2>1, <2>2, <2>3, <2>4 DEF LocalInv, Follow
<1>10. ASSUME retained' PROVE CoverInv(s)'
  <2>1. CoverInv(s) /\ retained
    BY <1>0, <1>1, <1>10 DEF SubInv
  <2>2. ASSUME Undisturbed(s)'
        PROVE  (1..cursor[s] \subseteq seen[s])' /\ PassedInv(s)' /\ QueueWhole(s)'
    <3>1. Undisturbed(s) /\ ~(buf.evictedUpto > after[s])
      BY <2>2, <1>1 DEF Undisturbed
    <3>2. 1..cursor[s] \subseteq seen[s] /\ buf.evictedUpto <= cursor[s]
      BY <2>1, <3>1, <1>2, <1>3 DEF CoverInv
    <3>3. \A k \in (buf.dropped + 1)..buf.tail :
            k <= buf.dropped /\ buf.events[k].seq > 0 => buf.events[k].seq \in seen[s]
      BY <1>2
    <3>4. buf.dropped <= buf.dropped
      BY <1>2
    <3>5. PassedInv(s)' /\ QueueWhole(s)'
      BY <1>1, <1>2, <2>1, <3>2, <3>3, <3>4, WindowCovers
    <3> QED BY <1>1, <3>2, <3>5
  <2>3. index'[s] <= buf'.tail
    BY <1>1, <1>2
  <2> QED BY <2>2, <2>3 DEF CoverInv
<1> QED BY <1>8, <1>9, <1>10 DEF SubInv

(* Taking the first event of the queue: either it is new and is received,  *)
(* or the cursor has passed it.                                            *)
Pull(s) ==
  LET e == queue[s][1] IN
  /\ pc[s] \in {"replaying", "following"}
  /\ buf' = buf /\ index'[s] = index[s] /\ retained' = retained
  /\ \/ /\ e.seq > cursor[s] /\ cursor'[s] = e.seq
        /\ seen'[s] = seen[s] \cup
             (IF e.type = "resync" THEN 1..(buf.nextSeq - 1) ELSE {e.seq})
        /\ overtaken'[s] = (overtaken[s] /\ e.type # "resync")
        /\ lagged'[s] = (lagged[s] /\ e.type # "resync")
     \/ /\ e.seq <= cursor[s] /\ cursor'[s] = cursor[s] /\ seen'[s] = seen[s]
        /\ overtaken'[s] = overtaken[s] /\ lagged'[s] = lagged[s]

(* A client that takes one queued event and is still undisturbed has       *)
(* covered everything up to its new cursor.                                *)
LEMMA PullCovers ==
  ASSUME IInv, retained, NEW s \in Subs, Pull(s), Undisturbed(s)'
  PROVE  /\ 1..cursor'[s] \subseteq seen'[s]
         /\ queue'[s] = Tail(queue[s]) => PassedInv(s)' /\ QueueWhole(s)'
<1> DEFINE q == queue[s]
           e == q[1]
<1>1. /\ cursor[s] \in Nat /\ buf.nextSeq \in Nat /\ buf.tail \in Nat
      /\ buf.dropped \in Nat /\ q \in Seq(Event) /\ Len(q) \in Nat
      /\ \A k \in 1..Len(q) : q[k].seq \in Nat
      /\ overtaken[s] \in BOOLEAN /\ lagged[s] \in BOOLEAN
  BY SubTyped DEF IInv, RecordInv
<1>2. /\ Len(q) > 0
      /\ \A k \in 1..Len(q) : q[k].seq < buf.nextSeq
      /\ \A k, m \in 1..Len(q) :
           k < m /\ q[k].seq > 0 /\ q[m].seq > 0 => q[k].seq < q[m].seq
  BY DEF IInv, QueueInv, Pull
<1>3. /\ e.seq \in Nat /\ 1 \in 1..Len(q) /\ Len(Tail(q)) = Len(q) - 1
      /\ \A k \in 1..Len(Tail(q)) : k + 1 \in 1..Len(q) /\ Tail(q)[k] = q[k + 1]
  <2> HIDE DEF q
  <2> QED BY <1>1, <1>2, TailFacts
<1>4. pc[s] \in Open /\ CoverInv(s) /\ buf' = buf /\ index'[s] = index[s]
  BY DEF IInv, Pull, Open, Follow
<1>5. \A k \in (buf.dropped + 1)..buf.tail :
        buf.events[k].seq \in Nat /\ buf.events[k].seq < buf.nextSeq
  BY BufferReads DEF IInv, RecordInv
<1>6. ASSUME e.seq > cursor[s], e.type = "resync"
      PROVE  /\ 1..cursor'[s] \subseteq seen'[s]
             /\ queue'[s] = Tail(q) => PassedInv(s)' /\ QueueWhole(s)'
  <2>1. cursor'[s] = e.seq /\ 1..(buf.nextSeq - 1) \subseteq seen'[s]
    BY <1>1, <1>3, <1>6 DEF Pull
  <2>2. 1..cursor'[s] \subseteq seen'[s]
    <3>1. 1..e.seq \subseteq 1..(buf.nextSeq - 1)
      BY <1>1, <1>2, <1>3
    <3> QED BY <2>1, <3>1
  <2>3. PassedInv(s)'
    <3> SUFFICES ASSUME NEW k \in (buf.dropped + 1)..buf.tail, buf.events[k].seq > 0
                 PROVE  buf.events[k].seq \in seen'[s]
      BY <1>4 DEF PassedInv
    <3>1. buf.events[k].seq \in 1..(buf.nextSeq - 1)
      BY <1>1, <1>5
    <3> QED BY <2>1, <3>1
  <2>4. queue'[s] = Tail(q) => QueueWhole(s)'
    <3> SUFFICES ASSUME queue'[s] = Tail(q), NEW k \in 1..Len(Tail(q)),
                        NEW n \in 1..(Tail(q)[k].seq - 1)
                 PROVE  n \in seen'[s]
      BY DEF QueueWhole
    <3>1. Tail(q)[k].seq < buf.nextSeq /\ Tail(q)[k].seq \in Nat
      BY <1>1, <1>2, <1>3
    <3>2. n \in 1..(buf.nextSeq - 1)
      BY <3>1, <1>1
    <3> QED BY <2>1, <3>2
  <2> QED BY <2>2, <2>3, <2>4
<1>7. ASSUME ~(e.seq > cursor[s] /\ e.type = "resync")
      PROVE  /\ 1..cursor'[s] \subseteq seen'[s]
             /\ queue'[s] = Tail(q) => PassedInv(s)' /\ QueueWhole(s)'
  <2>1. Undisturbed(s)
    BY <1>1, <1>3, <1>7 DEF Pull, Undisturbed
  <2>2. 1..cursor[s] \subseteq seen[s] /\ PassedInv(s) /\ QueueWhole(s)
    BY <1>4, <2>1 DEF CoverInv
  <2>3. seen[s] \subseteq seen'[s]
    BY DEF Pull
  <2>4. e.seq > 0 => e.seq \in seen'[s]
    <3>1. CASE e.seq > cursor[s]
      BY <1>7, <3>1, <1>1, <1>3 DEF Pull
    <3>2. CASE ~(e.seq > cursor[s])
      <4>1. e.seq > 0 => e.seq \in 1..cursor[s]
        BY <1>1, <1>3, <3>2
      <4> QED BY <4>1, <2>2, <2>3
    <3> QED BY <3>1, <3>2
  <2>5. 1..cursor'[s] \subseteq seen'[s]
    <3>1. CASE e.seq > cursor[s]
      <4>1. cursor'[s] = e.seq /\ e.type # "resync"
        BY <1>1, <1>3, <1>7, <3>1 DEF Pull
      <4>2. \A n \in 1..(e.seq - 1) : n \in seen[s]
        <5>1. \A n \in 1..(e.seq - 1) :
                n \in seen[s] \/ \E m \in 1..(1 - 1) : q[m].seq = n
          BY <1>3, <2>2, <4>1 DEF QueueWhole
        <5> QED BY <5>1
      <4>3. \A n \in 1..e.seq : n = e.seq \/ n \in 1..(e.seq - 1)
        BY <1>3
      <4>4. e.seq > 0
        BY <3>1, <1>1, <1>3
      <4> QED BY <2>3, <2>4, <4>1, <4>2, <4>3, <4>4
    <3>2. CASE ~(e.seq > cursor[s])
      BY <1>1, <1>3, <2>2, <3>2 DEF Pull
    <3> QED BY <3>1, <3>2
  <2>6. ASSUME queue'[s] = Tail(q) PROVE PassedInv(s)'
    <3> SUFFICES ASSUME ~ResyncAhead(s)', NEW k \in (buf.dropped + 1)..buf.tail,
                        k <= index[s], buf.events[k].seq > 0
                 PROVE  buf.events[k].seq \in seen'[s] \cup Pending(s)'
      BY <1>4 DEF PassedInv
    <3>1. ~ResyncAhead(s)
      <4> SUFFICES ASSUME NEW j \in 1..Len(q), q[j].type = "resync", q[j].seq > cursor[s]
                   PROVE  FALSE
        BY DEF ResyncAhead
      <4>1. j # 1
        BY <1>7
      <4>2. j - 1 \in 1..Len(Tail(q)) /\ (j - 1) + 1 = j
        BY <1>1, <1>3, <4>1
      <4>3. queue'[s][j - 1] = q[j]
        BY <1>3, <2>6, <4>2
      <4>4. q[j].seq > cursor'[s]
        <5>1. CASE e.seq > cursor[s]
          <6>1. cursor'[s] = e.seq /\ e.seq > 0 /\ q[j].seq > 0 /\ 1 < j
            BY <5>1, <1>1, <1>3, <4>1 DEF Pull
          <6>2. e.seq < q[j].seq
            BY <6>1, <1>2, <1>3
          <6> QED BY <6>1, <6>2, <1>1, <1>3
        <5>2. CASE ~(e.seq > cursor[s])
          BY <5>2, <1>1, <1>3 DEF Pull
        <5> QED BY <5>1, <5>2
      <4>5. ResyncAhead(s)'
        BY <2>6, <4>2, <4>3, <4>4 DEF ResyncAhead
      <4> QED BY <4>5
    <3>2. buf.events[k].seq \in seen[s] \cup Pending(s)
      BY <1>4, <2>2, <3>1 DEF PassedInv
    <3>3. CASE buf.events[k].seq \in seen[s]
      BY <2>3, <3>3
    <3>4. CASE buf.events[k].seq \in Pending(s)
      <4>1. PICK j \in 1..Len(q) : q[j].seq = buf.events[k].seq
        BY <3>4 DEF Pending
      <4>2. CASE j = 1
        BY <2>4, <4>1, <4>2
      <4>3. CASE j # 1
        <5>1. j - 1 \in 1..Len(Tail(q)) /\ (j - 1) + 1 = j
          BY <1>1, <1>3, <4>3
        <5>2. queue'[s][j - 1] = q[j]
          BY <1>3, <2>6, <5>1
        <5>3. buf.events[k].seq \in Pending(s)'
          BY <2>6, <4>1, <5>1, <5>2 DEF Pending
        <5> QED BY <5>3
      <4> QED BY <4>2, <4>3
    <3> QED BY <3>2, <3>3, <3>4
  <2>7. ASSUME queue'[s] = Tail(q) PROVE QueueWhole(s)'
    <3> SUFFICES ASSUME NEW k \in 1..Len(Tail(q)), Tail(q)[k].type # "resync",
                        NEW n \in 1..(Tail(q)[k].seq - 1)
                 PROVE  n \in seen'[s] \/ \E m \in 1..(k - 1) : Tail(q)[m].seq = n
      BY <2>7, ZenonT(60) DEF QueueWhole
    <3>1. k + 1 \in 1..Len(q) /\ Tail(q)[k] = q[k + 1] /\ (k + 1) - 1 = k
      BY <1>3
    <3>2. n \in seen[s] \/ \E m \in 1..k : q[m].seq = n
      BY <2>2, <3>1 DEF QueueWhole
    <3>3. ASSUME NEW m \in 1..k, q[m].seq = n
          PROVE  n \in seen'[s] \/ \E j \in 1..(k - 1) : Tail(q)[j].seq = n
      <4>1. CASE m = 1
        <5>1. n > 0
          BY <3>1, <1>3
        <5> QED BY <5>1, <4>1, <3>3, <2>4
      <4>2. CASE m # 1
        <5>1. m - 1 \in 1..(k - 1) /\ m - 1 \in 1..Len(Tail(q)) /\ (m - 1) + 1 = m
          BY <4>2, <1>3, <1>1, SMTT(40)
        <5>2. Tail(q)[m - 1] = q[m]
          BY <5>1, <1>3
        <5> QED BY <5>1, <5>2, <3>3
      <4> QED BY <4>1, <4>2
    <3> QED BY <2>3, <3>2, <3>3
  <2> QED BY <2>5, <2>6, <2>7
<1> QED BY <1>6, <1>7

(* The queue without its head keeps its order.                             *)
LEMMA TailOrdered ==
  ASSUME NEW s \in Subs, TypeOK, QueueInv(s), Len(queue[s]) > 0,
         queue'[s] = Tail(queue[s]), buf' = buf,
         pc'[s] \in {"replaying", "following"} <=> Len(queue[s]) # 1
  PROVE  QueueInv(s)'
<1> DEFINE q == queue[s]
<1>1. /\ q \in Seq(Event) /\ Len(q) \in Nat /\ Len(q) > 0
      /\ \A k \in 1..Len(q) : q[k].seq < buf.nextSeq
      /\ \A k, m \in 1..Len(q) :
           k < m /\ q[k].seq > 0 /\ q[m].seq > 0 => q[k].seq < q[m].seq
  BY SubTyped DEF QueueInv
<1> HIDE DEF q
<1>2. /\ Len(Tail(q)) = Len(q) - 1
      /\ \A k \in 1..Len(Tail(q)) : k + 1 \in 1..Len(q) /\ Tail(q)[k] = q[k + 1]
  BY <1>1, TailFacts
<1>3. /\ Len(q) # 1 => Len(Tail(q)) > 0
      /\ Len(q) = 1 => Len(Tail(q)) = 0
  <2> DEFINE l == Len(q)
             r == Len(Tail(q))
  <2>1. l \in Nat /\ l > 0 /\ r = l - 1
    BY <1>1, <1>2
  <2> HIDE DEF l, r
  <2>2. (l # 1 => r > 0) /\ (l = 1 => r = 0)
    BY <2>1
  <2> QED BY <2>2 DEF l, r
<1>4. \A k \in 1..Len(Tail(q)) : Tail(q)[k].seq < buf.nextSeq
  BY <1>1, <1>2
<1>5. ASSUME NEW k \in 1..Len(Tail(q)), NEW m \in 1..Len(Tail(q)),
             k < m, Tail(q)[k].seq > 0, Tail(q)[m].seq > 0
      PROVE  Tail(q)[k].seq < Tail(q)[m].seq
  <2>1. k + 1 < m + 1
    BY <1>1, <1>2, <1>5
  <2> QED BY <1>1, <1>2, <1>5, <2>1
<1>6. queue'[s] = Tail(q)
  BY DEF q
<1> QED BY <1>3, <1>4, <1>5, <1>6 DEF QueueInv, q

(* One yield of the replay keeps the subscriber's invariant.               *)
LEMMA YieldReplayStep ==
  ASSUME IInv, [Next]_vars, NEW s \in Subs, YieldReplay(s)
  PROVE  SubInv(s)' /\ Pull(s)
<1> DEFINE q == queue[s]
           e == q[1]
<1>0. SubInv(s) /\ TypeOK /\ TypeOK'
  BY TypeStep DEF IInv, SubInv, RecordInv
<1>1. /\ cursor[s] \in Nat /\ buf.nextSeq \in Nat /\ after[s] \in Nat
      /\ delivered[s] \in Nat /\ q \in Seq(Event) /\ Len(q) \in Nat
      /\ \A k \in 1..Len(q) : q[k].seq \in Nat
  BY <1>0, SubTyped
<1>2. /\ pc[s] = "replaying" /\ buf' = buf /\ retained' = retained
      /\ queue'[s] = Tail(q) /\ index'[s] = index[s] /\ after'[s] = after[s]
      /\ delivered'[s] = delivered[s]
      /\ pc'[s] = IF Len(q) = 1 THEN "snap" ELSE "replaying"
  BY <1>0 DEF YieldReplay, Goto, bufVars, TypeOK, GenTyped
<1>3. /\ Len(q) > 0
      /\ \A k \in 1..Len(q) : q[k].seq < buf.nextSeq
      /\ \A k, m \in 1..Len(q) :
           k < m /\ q[k].seq > 0 /\ q[m].seq > 0 => q[k].seq < q[m].seq
  BY <1>0, <1>2 DEF SubInv, QueueInv
<1>4. /\ Head(q) = e /\ e.seq \in Nat /\ 1 \in 1..Len(q)
      /\ Len(Tail(q)) = Len(q) - 1
      /\ \A k \in 1..Len(Tail(q)) : k + 1 \in 1..Len(q) /\ Tail(q)[k] = q[k + 1]
  <2> HIDE DEF q
  <2> QED BY <1>1, <1>3, TailFacts
<1>5. /\ after[s] <= cursor[s] /\ cursor[s] <= delivered[s]
      /\ delivered[s] < buf.nextSeq /\ cursor[s] < buf.nextSeq
      /\ \A k \in 1..Len(q) :
           q[k].seq <= delivered[s] /\ (q[k].seq > after[s] => q[k].seq > cursor[s])
      /\ \/ delivered[s] = cursor[s]
         \/ \E k \in 1..Len(q) : q[k].seq = delivered[s]
  BY <1>0, <1>2 DEF SubInv, LocalInv
<1>6. /\ e.seq > after[s] => e.seq > cursor[s] /\ Receive(s, e)
      /\ ~(e.seq > after[s]) => e.seq <= cursor[s] /\ UNCHANGED cliVars
  <2>1. /\ e.seq > after[s] => Receive(s, e)
        /\ ~(e.seq > after[s]) => UNCHANGED cliVars
    BY <1>4 DEF YieldReplay
  <2>2. ~(e.seq > after[s]) => e.seq <= cursor[s]
    BY <1>1, <1>4, <1>5
  <2> QED BY <1>4, <1>5, <2>1, <2>2
<1>7. Pull(s)
  <2>1. CASE e.seq > after[s]
    <3>1. /\ cursor'[s] = e.seq
          /\ seen'[s] = seen[s] \cup
               (IF e.type = "resync" THEN 1..(buf.nextSeq - 1) ELSE {e.seq})
          /\ overtaken'[s] = (overtaken[s] /\ e.type # "resync")
          /\ lagged'[s] = (lagged[s] /\ e.type # "resync")
      BY <1>0, <1>6, <2>1 DEF Receive, TypeOK, ClientTyped
    <3> QED BY <1>2, <1>6, <2>1, <3>1 DEF Pull
  <2>2. CASE ~(e.seq > after[s])
    BY <1>2, <1>6, <2>2 DEF Pull, cliVars
  <2> QED BY <2>1, <2>2
<1>8. QueueInv(s)'
  BY <1>0, <1>2, <1>3, TailOrdered DEF SubInv
<1>9. LocalInv(s)'
  <2>1. CASE e.seq > after[s]
    <3>1. cursor'[s] = e.seq /\ e.seq > cursor[s] /\ e.seq < buf.nextSeq
          /\ after[s] <= e.seq /\ e.seq <= delivered[s]
      BY <1>0, <1>1, <1>3, <1>4, <1>5, <1>6, <2>1 DEF Receive, TypeOK, ClientTyped
    <3>2. PICK j \in 1..Len(q) : q[j].seq = delivered[s]
      BY <3>1, <1>1, <1>4, <1>5
    <3>3. Len(q) = 1 => delivered[s] = e.seq
      <4>1. Len(q) = 1 => j = 1
        BY <1>1
      <4> QED BY <3>2, <4>1
    <3>4. \A k \in 1..Len(Tail(q)) :
            Tail(q)[k].seq <= delivered[s] /\ (Tail(q)[k].seq > after[s] => Tail(q)[k].seq > e.seq)
      <4> TAKE k \in 1..Len(Tail(q))
      <4>1. k + 1 \in 1..Len(q) /\ Tail(q)[k] = q[k + 1] /\ 1 < k + 1
            /\ q[k + 1].seq \in Nat /\ q[k + 1].seq <= delivered[s]
        BY <1>1, <1>4, <1>5, SMTT(40)
      <4>2. ASSUME q[k + 1].seq > after[s] PROVE q[k + 1].seq > e.seq
        <5>1. q[k + 1].seq > 0 /\ e.seq > 0
          BY <4>1, <4>2, <2>1, <1>1, <1>4, SMTT(40)
        <5>2. e.seq < q[k + 1].seq
          BY <5>1, <4>1, <1>3, <1>4
        <5> QED BY <5>2, <4>1, <1>4
      <4> QED BY <4>1, <4>2
    <3>5. delivered[s] = e.seq \/ \E k \in 1..Len(Tail(q)) : Tail(q)[k].seq = delivered[s]
      <4>1. CASE j = 1
        BY <3>2, <4>1
      <4>2. CASE j # 1
        <5>1. j - 1 \in 1..Len(Tail(q)) /\ (j - 1) + 1 = j
          BY <4>2, <1>1, <1>4
        <5> QED BY <3>2, <5>1, <1>4
      <4> QED BY <4>1, <4>2
    <3> HIDE DEF q
    <3> QED BY <1>1, <1>2, <1>4, <1>5, <3>1, <3>3, <3>4, <3>5 DEF LocalInv, Follow
  <2>2. CASE ~(e.seq > after[s])
    <3>1. cursor' = cursor /\ e.seq <= after[s]
      BY <1>1, <1>4, <1>6, <2>2 DEF cliVars
    <3>2. \A k \in 1..Len(Tail(q)) :
            Tail(q)[k].seq <= delivered[s] /\ (Tail(q)[k].seq > after[s] => Tail(q)[k].seq > cursor[s])
      BY <1>4, <1>5
    <3>3. delivered[s] = cursor[s] \/ \E k \in 1..Len(Tail(q)) : Tail(q)[k].seq = delivered[s]
      <4>1. ASSUME NEW j \in 1..Len(q), q[j].seq = delivered[s]
            PROVE  delivered[s] = cursor[s] \/ \E k \in 1..Len(Tail(q)) : Tail(q)[k].seq = delivered[s]
        <5>1. CASE j = 1
          BY <4>1, <5>1, <3>1, <1>1, <1>4, <1>5
        <5>2. CASE j # 1
          <6>1. j - 1 \in 1..Len(Tail(q)) /\ (j - 1) + 1 = j
            BY <5>2, <1>1, <1>4
          <6> QED BY <4>1, <6>1, <1>4
        <5> QED BY <5>1, <5>2
      <4> QED BY <4>1, <1>5
    <3>4. Len(q) = 1 => delivered[s] = cursor[s]
      <4>1. Len(q) = 1 => \A k \in 1..Len(Tail(q)) : FALSE
        BY <1>4
      <4> QED BY <3>3, <4>1
    <3> HIDE DEF q
    <3> QED BY <1>1, <1>2, <1>4, <1>5, <3>1, <3>2, <3>3, <3>4 DEF LocalInv, Follow
  <2> QED BY <2>1, <2>2
<1>10. ASSUME retained' PROVE CoverInv(s)'
  <2>1. retained /\ CoverInv(s)
    BY <1>0, <1>2, <1>10 DEF SubInv
  <2>2. index'[s] <= buf'.tail
    BY <1>2, <2>1 DEF CoverInv, Open
  <2>3. Undisturbed(s)' => /\ 1..cursor'[s] \subseteq seen'[s]
                           /\ PassedInv(s)' /\ QueueWhole(s)'
    BY <1>2, <1>7, <2>1, PullCovers
  <2> QED BY <2>2, <2>3 DEF CoverInv
<1> QED BY <1>7, <1>8, <1>9, <1>10 DEF SubInv

(* One yield while following keeps the subscriber's invariant.             *)
LEMMA YieldFollowStep ==
  ASSUME IInv, [Next]_vars, NEW s \in Subs, YieldFollow(s)
  PROVE  SubInv(s)' /\ Pull(s)
<1> DEFINE q == queue[s]
           e == q[1]
           over == e.seq > delivered[s] /\ e.type = "terminal"
<1>0. SubInv(s) /\ TypeOK /\ TypeOK'
  BY TypeStep DEF IInv, SubInv, RecordInv
<1>1. /\ cursor[s] \in Nat /\ buf.nextSeq \in Nat /\ after[s] \in Nat
      /\ delivered[s] \in Nat /\ q \in Seq(Event) /\ Len(q) \in Nat
      /\ \A k \in 1..Len(q) : q[k].seq \in Nat
  BY <1>0, SubTyped
<1>2. pc[s] = "following" /\ buf' = buf /\ retained' = retained
      /\ index'[s] = index[s] /\ after'[s] = after[s]
  BY <1>0 DEF YieldFollow, bufVars, TypeOK, GenTyped
<1>3. /\ Len(q) > 0 /\ delivered[s] = cursor[s] /\ after[s] <= cursor[s]
      /\ cursor[s] < buf.nextSeq
      /\ \A k \in 1..Len(q) : q[k].seq < buf.nextSeq
  BY <1>0, <1>2 DEF SubInv, QueueInv, LocalInv, Follow
<1>4. Head(q) = e /\ e.seq \in Nat /\ 1 \in 1..Len(q)
  <2> HIDE DEF q
  <2> QED BY <1>1, <1>3, TailFacts
<1>5. /\ queue'[s] = IF over THEN <<>> ELSE Tail(q)
      /\ pc'[s] = IF over THEN "done"
                  ELSE IF Len(q) = 1 THEN "snap" ELSE "following"
  BY <1>0, <1>4 DEF YieldFollow, Goto, TypeOK, GenTyped
<1>6. /\ e.seq > delivered[s] => delivered'[s] = e.seq /\ Receive(s, e)
      /\ ~(e.seq > delivered[s]) => delivered'[s] = delivered[s] /\ UNCHANGED cliVars
  BY <1>0, <1>4 DEF YieldFollow, TypeOK, GenTyped
<1>7. Pull(s)
  <2>1. CASE e.seq > delivered[s]
    <3>1. /\ cursor'[s] = e.seq
          /\ seen'[s] = seen[s] \cup
               (IF e.type = "resync" THEN 1..(buf.nextSeq - 1) ELSE {e.seq})
          /\ overtaken'[s] = (overtaken[s] /\ e.type # "resync")
          /\ lagged'[s] = (lagged[s] /\ e.type # "resync")
      BY <1>0, <1>6, <2>1 DEF Receive, TypeOK, ClientTyped
    <3> QED BY <1>2, <1>3, <2>1, <3>1 DEF Pull
  <2>2. CASE ~(e.seq > delivered[s])
    <3>1. e.seq <= cursor[s]
      BY <1>1, <1>3, <1>4, <2>2
    <3> QED BY <1>2, <1>6, <2>2, <3>1 DEF Pull, cliVars
  <2> QED BY <2>1, <2>2
<1>8. QueueInv(s)'
  <2>1. CASE over
    BY <1>5, <2>1 DEF QueueInv
  <2>2. CASE ~over
    <3>1. queue'[s] = Tail(q) /\ (pc'[s] \in {"replaying", "following"} <=> Len(q) # 1)
      BY <1>5, <2>2
    <3> QED BY <1>0, <1>2, <1>3, <3>1, TailOrdered DEF SubInv
  <2> QED BY <2>1, <2>2
<1>9. LocalInv(s)'
  <2>1. pc'[s] \in {"done", "snap", "following"}
    BY <1>5
  <2>2. delivered'[s] = cursor'[s] /\ cursor'[s] < buf.nextSeq /\ after[s] <= cursor'[s]
    <3>1. CASE e.seq > delivered[s]
      <4>1. delivered'[s] = e.seq /\ cursor'[s] = e.seq
        BY <1>0, <1>6, <3>1 DEF Receive, TypeOK, ClientTyped
      <4> QED BY <4>1, <3>1, <1>1, <1>3, <1>4
    <3>2. CASE ~(e.seq > delivered[s])
      BY <1>3, <1>6, <3>2 DEF cliVars
    <3> QED BY <3>1, <3>2
  <2> QED BY <1>2, <2>1, <2>2 DEF LocalInv, Follow
<1>10. ASSUME retained' PROVE CoverInv(s)'
  <2>1. retained /\ CoverInv(s)
    BY <1>0, <1>2, <1>10 DEF SubInv
  <2>2. index'[s] <= buf'.tail
    BY <1>2, <2>1 DEF CoverInv, Open, Follow
  <2>3. Undisturbed(s)' => /\ 1..cursor'[s] \subseteq seen'[s]
                           /\ queue'[s] = Tail(q) => PassedInv(s)' /\ QueueWhole(s)'
    BY <1>7, <2>1, PullCovers
  <2>4. over => PassedInv(s)' /\ QueueWhole(s)'
    <3>1. over => queue'[s] = <<>> /\ pc'[s] = "done"
      BY <1>5
    <3> QED BY <3>1 DEF PassedInv, QueueWhole, Open, Follow
  <2>5. ~over => queue'[s] = Tail(q)
    BY <1>5
  <2> QED BY <2>2, <2>3, <2>4, <2>5 DEF CoverInv
<1> QED BY <1>7, <1>8, <1>9, <1>10 DEF SubInv

(* One look at the buffer while following.                                 *)
LEMMA SnapshotStep ==
  ASSUME IInv, [Next]_vars, NEW s \in Subs, Snap(s) \/ WakeSync(s)
  PROVE  SubInv(s)'
<1>0. SubInv(s) /\ TypeOK /\ TypeOK' /\ BufInv(buf) /\ BufTyped(buf)
  BY TypeStep DEF IInv, SubInv, RecordInv, BufInv
<1>1. PICK l \in {"wait", "done", "idle"} : pc[s] \in {"snap", "wait"} /\ FollowSnapshot(s, l)
  BY DEF Snap, WakeSync
<1>2. /\ cursor[s] \in Nat /\ after[s] \in Nat /\ buf.nextSeq \in Nat /\ buf.tail \in Nat
      /\ buf.dropped \in Nat /\ buf.evictedUpto \in Nat /\ buf.dropped <= buf.tail
      /\ index[s] \in Nat /\ delivered[s] \in Nat
      /\ queue[s] \in Seq(Event) /\ Len(queue[s]) \in Nat
  BY <1>0, SubTyped DEF BufTyped
<1>3. /\ delivered[s] = cursor[s] /\ after[s] <= cursor[s] /\ cursor[s] < buf.nextSeq
      /\ Len(queue[s]) = 0
  BY <1>0, <1>1 DEF SubInv, LocalInv, QueueInv, Follow
<1>4. /\ queue'[s] = Fresh(s) /\ buf' = buf /\ retained' = retained
      /\ index'[s] = IF Stale(s) THEN index[s] ELSE buf.tail
      /\ pc'[s] = IF Stale(s) THEN "gap" ELSE IF Fresh(s) # <<>> THEN "following" ELSE l
      /\ after'[s] = after[s] /\ delivered'[s] = delivered[s]
      /\ cursor'[s] = cursor[s] /\ seen'[s] = seen[s] /\ overtaken'[s] = overtaken[s]
      /\ lagged'[s] = (lagged[s] \/ /\ ~Stale(s) /\ Behind(s)
                                    /\ \E n \in BufferedSeqs(buf, buf.dropped) : n > delivered[s])
  BY <1>0, <1>1 DEF FollowSnapshot, Goto, bufVars, TypeOK, GenTyped, ClientTyped
<1>5. pc'[s] \in {"gap", "following", "wait", "done", "idle"}
  BY <1>1, <1>4
<1>6. LocalInv(s)'
  BY <1>2, <1>3, <1>4, <1>5 DEF LocalInv, Follow
<1>7. CASE Stale(s) \/ Behind(s)
  <2>1. queue'[s] = <<>> /\ Len(queue'[s]) = 0 /\ pc'[s] \in {"gap", "wait", "done", "idle"}
    BY <1>1, <1>4, <1>7 DEF Fresh
  <2>2. QueueInv(s)'
    BY <2>1 DEF QueueInv
  <2>3. QueueWhole(s)'
    BY <2>1 DEF QueueWhole
  <2>4. ASSUME retained' PROVE CoverInv(s)'
    <3>1. CoverInv(s) /\ retained
      BY <1>0, <1>4, <2>4 DEF SubInv
    <3>2. pc'[s] \in Open => ~Stale(s) /\ index'[s] <= buf'.tail
      BY <1>2, <1>4 DEF Open, Follow
    <3>3. ASSUME Undisturbed(s)' PROVE (1..cursor[s] \subseteq seen[s])' /\ PassedInv(s)'
      <4>1. Undisturbed(s) /\ 1..cursor[s] \subseteq seen[s]
        BY <1>4, <3>1, <3>3 DEF Undisturbed, CoverInv
      <4>2. ASSUME pc'[s] \in Open, NEW k \in (buf.dropped + 1)..buf.tail,
                   buf.events[k].seq > 0
            PROVE  buf.events[k].seq \in seen[s]
        <5>1. buf.events[k].seq \in BufferedSeqs(buf, buf.dropped)
          BY <4>2 DEF BufferedSeqs
        <5>2. ~(buf.events[k].seq > delivered[s])
          BY <1>4, <1>7, <3>2, <3>3, <4>2, <5>1 DEF Undisturbed
        <5>3. buf.events[k].seq \in Nat
          BY <1>0, BufferReads
        <5>4. buf.events[k].seq \in 1..cursor[s]
          BY <4>2, <5>2, <5>3, <1>2, <1>3
        <5> QED BY <4>1, <5>4
      <4>3. PassedInv(s)'
        BY <1>4, <4>2 DEF PassedInv
      <4> QED BY <1>4, <4>1, <4>3
    <3> QED BY <2>3, <3>2, <3>3 DEF CoverInv
  <2> QED BY <1>6, <2>2, <2>4 DEF SubInv
<1>8. CASE ~Stale(s) /\ ~Behind(s)
  <2>1. queue'[s] = Window(buf, index[s]) /\ buf.dropped <= index[s]
        /\ buf.evictedUpto <= cursor[s] /\ index'[s] = buf.tail
    BY <1>2, <1>3, <1>4, <1>8 DEF Fresh, Stale, Behind
  <2>2. /\ queue'[s] \in Seq(Event)
        /\ \A k \in 1..Len(queue'[s]) :
             /\ index[s] + k \in (buf.dropped + 1)..buf.tail
             /\ queue'[s][k] = buf.events[index[s] + k]
    BY <1>0, <1>2, <2>1, WindowSeq
  <2>3. /\ \A k \in (buf.dropped + 1)..buf.tail : buf.events[k].seq < buf.nextSeq
        /\ \A k, m \in (buf.dropped + 1)..buf.tail :
             k < m /\ buf.events[k].seq > 0 /\ buf.events[m].seq > 0
               => buf.events[k].seq < buf.events[m].seq
    BY <1>0, BufferReads
  <2>4. QueueInv(s)'
    <3>1. \A k \in 1..Len(queue'[s]) : queue'[s][k].seq < buf.nextSeq
      BY <2>2, <2>3
    <3>2. ASSUME NEW k \in 1..Len(queue'[s]), NEW m \in 1..Len(queue'[s]),
                 k < m, queue'[s][k].seq > 0, queue'[s][m].seq > 0
          PROVE  queue'[s][k].seq < queue'[s][m].seq
      <4>1. index[s] + k < index[s] + m
        BY <3>2, <1>2, <2>2
      <4> QED BY <3>2, <4>1, <2>2, <2>3
    <3>3. /\ queue'[s] # <<>> => Len(queue'[s]) > 0 /\ pc'[s] = "following"
          /\ queue'[s] = <<>> => Len(queue'[s]) = 0 /\ pc'[s] \in {"wait", "done", "idle"}
      BY <1>4, <1>8, <2>2
    <3> QED BY <1>4, <3>1, <3>2, <3>3 DEF QueueInv
  <2>5. ASSUME retained' PROVE CoverInv(s)'
    <3>1. CoverInv(s) /\ retained /\ pc[s] \in Open
      BY <1>0, <1>1, <1>4, <2>5 DEF SubInv, Open, Follow
    <3>2. index[s] <= buf.tail
      BY <3>1 DEF CoverInv
    <3>3. ASSUME Undisturbed(s)'
          PROVE  (1..cursor[s] \subseteq seen[s])' /\ PassedInv(s)' /\ QueueWhole(s)'
      <4>1. Undisturbed(s)
        BY <1>4, <3>3 DEF Undisturbed
      <4>2. 1..cursor[s] \subseteq seen[s] /\ PassedInv(s)
        BY <3>1, <4>1 DEF CoverInv
      <4>3. ~ResyncAhead(s) /\ Pending(s) = {}
        BY <1>3 DEF ResyncAhead, Pending
      <4>4. \A k \in (buf.dropped + 1)..buf.tail :
              k <= index[s] /\ buf.events[k].seq > 0 => buf.events[k].seq \in seen[s]
        BY <3>1, <4>2, <4>3 DEF PassedInv
      <4>5. PassedInv(s)' /\ QueueWhole(s)'
        BY <1>2, <1>4, <2>1, <3>1, <3>2, <4>2, <4>4, WindowCovers
      <4> QED BY <1>4, <4>2, <4>5
    <3>4. index'[s] <= buf'.tail
      BY <1>2, <1>4, <2>1
    <3> QED BY <3>3, <3>4 DEF CoverInv
  <2> QED BY <1>6, <2>4, <2>5 DEF SubInv
<1> QED BY <1>7, <1>8

----------------------------------------------------------------------------
(* A step moves one subscriber, or none.                                   *)
LEMMA Frame ==
  ASSUME TypeOK, [Next]_vars, NEW s \in Subs
  PROVE  Same(s) \/ Subscribe(s) \/ Step(s) \/ Disconnect(s)
<1> USE DEF TypeOK, GenTyped, ClientTyped
<1>1. CASE EmitDurable \/ EmitLossy \/ Finish \/ Sweep \/ UNCHANGED vars
  BY <1>1 DEF EmitDurable, EmitLossy, Finish, Sweep, vars, genVars, cliVars, Same
<1>2. ASSUME NEW t \in Subs, t # s, Subscribe(t) PROVE Same(s)
  BY <1>2 DEF Subscribe, Goto, Same
<1>3. ASSUME NEW t \in Subs, t # s, Disconnect(t) PROVE Same(s)
  BY <1>3 DEF Disconnect, Goto, Same, cliVars
<1>4. ASSUME NEW t \in Subs, t # s, Step(t) PROVE Same(s)
  <2>1. CASE HasGap(t) \/ WakeAsync(t) \/ Heartbeat(t)
    BY <1>4, <2>1 DEF HasGap, WakeAsync, Heartbeat, Goto, Same, cliVars
  <2>2. CASE Replay(t)
    BY <1>4, <2>2 DEF Replay, Goto, Same
  <2>3. CASE EmitResync(t) \/ MarkTail(t)
    BY <1>4, <2>3 DEF EmitResync, MarkTail, Goto, Same, cliVars
  <2>4. CASE YieldReplay(t)
    <3>1. /\ pc'[s] = pc[s] /\ after'[s] = after[s] /\ delivered'[s] = delivered[s]
          /\ index'[s] = index[s] /\ queue'[s] = queue[s]
      BY <1>4, <2>4 DEF YieldReplay, Goto
    <3>2. Receive(t, Head(queue[t])) \/ UNCHANGED cliVars
      BY <2>4 DEF YieldReplay
    <3> QED BY <1>4, <3>1, <3>2 DEF Receive, Same, cliVars
  <2>5. CASE YieldFollow(t)
    <3>1. /\ pc'[s] = pc[s] /\ after'[s] = after[s] /\ delivered'[s] = delivered[s]
          /\ index'[s] = index[s] /\ queue'[s] = queue[s]
      BY <1>4, <2>5 DEF YieldFollow, Goto
    <3>2. Receive(t, Head(queue[t])) \/ UNCHANGED cliVars
      BY <2>5 DEF YieldFollow
    <3> QED BY <1>4, <3>1, <3>2 DEF Receive, Same, cliVars
  <2>6. ASSUME NEW l, FollowSnapshot(t, l) PROVE Same(s)
    BY <1>4, <2>6 DEF FollowSnapshot, Goto, Same
  <2> QED BY <1>4, <2>1, <2>2, <2>3, <2>4, <2>5, <2>6 DEF Step, Snap, WakeSync
<1> QED BY <1>1, <1>2, <1>3, <1>4 DEF Next

(* Only _finish() touches the status and the terminal event's seq.         *)
LEMMA StatusStep ==
  ASSUME [Next]_vars
  PROVE  Finish \/ (status' = status /\ termSeq' = termSeq)
<1>1. CASE EmitDurable \/ EmitLossy \/ Sweep \/ UNCHANGED vars
  BY <1>1 DEF EmitDurable, EmitLossy, Sweep, vars, bufVars
<1>2. ASSUME NEW s \in Subs, Subscribe(s) \/ Disconnect(s)
      PROVE  status' = status /\ termSeq' = termSeq
  BY <1>2 DEF Subscribe, Disconnect, bufVars
<1>3. ASSUME NEW s \in Subs, Step(s) PROVE status' = status /\ termSeq' = termSeq
  BY <1>3 DEF Step, HasGap, Replay, EmitResync, MarkTail, YieldReplay, YieldFollow, Snap,
              WakeSync, WakeAsync, Heartbeat, FollowSnapshot, bufVars
<1> QED BY <1>1, <1>2, <1>3 DEF Next

(* Every part of the invariant that speaks of one subscriber.              *)
LEMMA SubStep ==
  ASSUME IInv, [Next]_vars, NEW s \in Subs
  PROVE  SubInv(s)'
<1>1. TypeOK /\ TypeOK'
  BY TypeStep DEF IInv, RecordInv
<1>2. CASE Same(s)
  BY <1>1, <1>2, OthersKeep
<1>3. CASE Subscribe(s) \/ Disconnect(s) \/ HasGap(s) \/ EmitResync(s)
  BY <1>3, ClosedStep
<1>4. CASE WakeAsync(s) \/ Heartbeat(s)
  BY <1>4, IdleStep
<1>5. CASE MarkTail(s)
  BY <1>5, MarkTailStep
<1>6. CASE Replay(s)
  BY <1>6, ReplayStep
<1>7. CASE YieldReplay(s)
  BY <1>7, YieldReplayStep
<1>8. CASE YieldFollow(s)
  BY <1>8, YieldFollowStep
<1>9. CASE Snap(s) \/ WakeSync(s)
  BY <1>9, SnapshotStep
<1> QED BY <1>1, <1>2, <1>3, <1>4, <1>5, <1>6, <1>7, <1>8, <1>9, Frame DEF Step

(* Where the events of a queue come from.                                  *)
LEMMA QueueSources ==
  ASSUME IInv, [Next]_vars, NEW s \in Subs, NEW k \in 1..Len(queue'[s])
  PROVE  \/ \E m \in 1..Len(queue[s]) : queue'[s][k] = queue[s][m]
         \/ \E m \in (buf.dropped + 1)..buf.tail : queue'[s][k] = buf.events[m]
         \/ queue'[s][k].type = "resync"
<1>0. TypeOK /\ BufTyped(buf) /\ QueueInv(s)
  BY DEF IInv, RecordInv, BufInv
<1>1. /\ queue[s] \in Seq(Event) /\ buf.dropped \in Nat /\ index[s] \in Nat
      /\ buf.tail \in Nat
  BY <1>0, SubTyped
<1>2. CASE queue'[s] = queue[s]
  BY <1>2
<1>3. CASE queue'[s] = <<>>
  BY <1>3
<1>4. CASE Len(queue[s]) > 0 /\ queue'[s] = Tail(queue[s])
  BY <1>1, <1>4, TailFacts
<1>5. ASSUME NEW i \in Nat, buf.dropped <= i, queue'[s] = Window(buf, i)
      PROVE  \E m \in (buf.dropped + 1)..buf.tail : queue'[s][k] = buf.events[m]
  <2>1. /\ i + k \in (buf.dropped + 1)..buf.tail
        /\ Window(buf, i)[k] = buf.events[i + k]
    BY <1>0, <1>5, WindowSeq
  <2> QED BY <2>1, <1>5
<1>6. CASE Same(s)
  BY <1>2, <1>6 DEF Same
<1>7. CASE Subscribe(s) \/ Disconnect(s)
  BY <1>0, <1>3, <1>7 DEF Subscribe, Disconnect, TypeOK, GenTyped
<1>8. CASE HasGap(s) \/ WakeAsync(s) \/ Heartbeat(s) \/ EmitResync(s)
  BY <1>2, <1>8 DEF HasGap, WakeAsync, Heartbeat, EmitResync
<1>9. CASE MarkTail(s)
  <2> DEFINE e == [type |-> "resync", seq |-> delivered[s]]
  <2>1. queue'[s] = <<e>>
    BY <1>0, <1>9 DEF MarkTail, TypeOK, GenTyped
  <2>2. Len(<<e>>) = 1 /\ <<e>>[1] = e /\ e.type = "resync"
    OBVIOUS
  <2>3. k = 1
    BY <2>1, <2>2
  <2> QED BY <2>1, <2>2, <2>3
<1>10. CASE Replay(s)
  <2>1. queue'[s] = Window(buf, buf.dropped)
    BY <1>0, <1>10 DEF Replay, TypeOK, GenTyped
  <2>2. buf.dropped <= buf.dropped
    BY <1>1
  <2> QED BY <1>1, <1>5, <2>1, <2>2
<1>11. CASE YieldReplay(s)
  <2>1. Len(queue[s]) > 0 /\ queue'[s] = Tail(queue[s])
    BY <1>0, <1>11 DEF YieldReplay, QueueInv, TypeOK, GenTyped
  <2> QED BY <1>4, <2>1
<1>12. CASE YieldFollow(s)
  <2>1. Len(queue[s]) > 0 /\ (queue'[s] = Tail(queue[s]) \/ queue'[s] = <<>>)
    BY <1>0, <1>12 DEF YieldFollow, QueueInv, TypeOK, GenTyped
  <2> QED BY <1>3, <1>4, <2>1
<1>13. CASE Snap(s) \/ WakeSync(s)
  <2>1. queue'[s] = Fresh(s)
    BY <1>0, <1>13 DEF Snap, WakeSync, FollowSnapshot, TypeOK, GenTyped
  <2>2. queue'[s] = <<>> \/ (queue'[s] = Window(buf, index[s]) /\ buf.dropped <= index[s])
    BY <1>1, <2>1 DEF Fresh, Behind
  <2> QED BY <1>1, <1>3, <1>5, <2>2
<1> QED BY <1>0, <1>6, <1>7, <1>8, <1>9, <1>10, <1>11, <1>12, <1>13, Frame DEF Step

(* There is one terminal event, and a stream is over only after it.        *)
LEMMA TermStep ==
  ASSUME IInv, [Next]_vars
  PROVE  TermInv'
<1>0. /\ TypeOK /\ TypeOK' /\ RecordInv /\ TermInv
      /\ \A s \in Subs : QueueInv(s)
  BY TypeStep DEF IInv, RecordInv
<1>1. /\ buf.nextSeq \in Nat /\ buf'.nextSeq \in Nat /\ buf.nextSeq > 0
      /\ buf.tail \in Nat /\ buf.dropped \in Nat /\ buf'.tail \in Nat /\ buf'.dropped \in Nat
      /\ termSeq \in Nat /\ buf.nextSeq <= buf'.nextSeq
  BY <1>0, BufferGrows DEF TypeOK, BufTyped
<1>2. Finish => /\ status = "running" /\ status' = "terminal" /\ termSeq' = buf.nextSeq
                /\ buf' = Emit(buf, "terminal") /\ pc' = pc /\ queue' = queue
  BY DEF Finish, genVars
<1>3. status' = "terminal" => termSeq' > 0 /\ termSeq' < buf'.nextSeq
  <2>1. CASE Finish
    <3>1. buf'.nextSeq = buf.nextSeq + 1
      BY <1>0, <1>2, <2>1, EmitInv DEF RecordInv, EventTypes, DurableTypes
    <3> QED BY <1>1, <1>2, <2>1, <3>1
  <2>2. CASE status' = status /\ termSeq' = termSeq
    BY <1>0, <1>1, <2>2 DEF TermInv
  <2> QED BY <2>1, <2>2, StatusStep
<1>4. ASSUME NEW s \in Subs, pc'[s] = "done" PROVE status' = "terminal"
  <2>1. CASE Same(s)
    BY <1>0, <1>2, <1>4, <2>1, StatusStep DEF TermInv, Same
  <2>2. CASE YieldFollow(s)
    <3>1. status' = status /\ pc[s] = "following" /\ Head(queue[s]).type = "terminal"
      BY <1>0, <1>4, <2>2 DEF YieldFollow, Goto, bufVars, TypeOK, GenTyped
    <3>2. queue[s] \in Seq(Event) /\ Len(queue[s]) > 0
      BY <1>0, <3>1 DEF QueueInv, TypeOK, GenTyped
    <3>3. Head(queue[s]) = queue[s][1] /\ 1 \in 1..Len(queue[s])
      BY <3>2, TailFacts
    <3> QED BY <1>0, <3>1, <3>3 DEF TermInv
  <2>3. CASE Snap(s)
    BY <1>0, <1>4, <2>3 DEF Snap, FollowSnapshot, Goto, bufVars, TypeOK, GenTyped
  <2>4. CASE WakeSync(s)
    BY <1>0, <1>4, <2>4 DEF WakeSync, FollowSnapshot, Goto, bufVars, TypeOK, GenTyped
  <2>5. CASE Heartbeat(s)
    BY <1>0, <1>4, <2>5 DEF Heartbeat, Goto, bufVars, TypeOK, GenTyped
  <2>6. CASE Subscribe(s) \/ Disconnect(s) \/ HasGap(s) \/ Replay(s) \/ EmitResync(s)
             \/ MarkTail(s) \/ YieldReplay(s) \/ WakeAsync(s)
    BY <1>0, <1>4, <2>6 DEF Subscribe, Disconnect, HasGap, Replay, EmitResync, MarkTail,
                            YieldReplay, WakeAsync, Goto, TypeOK, GenTyped
  <2> QED BY <1>0, <2>1, <2>2, <2>3, <2>4, <2>5, <2>6, Frame DEF Step
<1>5. ASSUME NEW s \in Subs, pc'[s] = "idle" PROVE s \in SyncSubs
  <2>1. CASE Same(s)
    BY <1>0, <1>5, <2>1 DEF TermInv, Same
  <2>2. CASE YieldFollow(s)
    BY <1>0, <1>5, <2>2 DEF YieldFollow, Goto, TypeOK, GenTyped
  <2>3. CASE Snap(s)
    BY <1>0, <1>5, <2>3 DEF Snap, FollowSnapshot, Goto, TypeOK, GenTyped
  <2>4. CASE WakeSync(s)
    BY <2>4 DEF WakeSync
  <2>5. CASE Heartbeat(s)
    BY <1>0, <1>5, <2>5 DEF Heartbeat, Goto, TypeOK, GenTyped
  <2>6. CASE Subscribe(s) \/ Disconnect(s) \/ HasGap(s) \/ Replay(s) \/ EmitResync(s)
             \/ MarkTail(s) \/ YieldReplay(s) \/ WakeAsync(s)
    BY <1>0, <1>5, <2>6 DEF Subscribe, Disconnect, HasGap, Replay, EmitResync, MarkTail,
                            YieldReplay, WakeAsync, Goto, TypeOK, GenTyped
  <2> QED BY <1>0, <2>1, <2>2, <2>3, <2>4, <2>5, <2>6, Frame DEF Step
<1>6. ASSUME NEW type \in EventTypes, buf' = Emit(buf, type), type = "terminal" => Finish,
             NEW k \in (buf'.dropped + 1)..buf'.tail, buf'.events[k].type = "terminal"
      PROVE  status' = "terminal" /\ buf'.events[k].seq = termSeq'
  <2>1. /\ buf'.tail = buf.tail + 1
        /\ k <= buf.tail => k \in (buf.dropped + 1)..buf.tail /\ buf'.events[k] = buf.events[k]
        /\ k = buf'.tail => /\ buf'.events[k].type = type
                            /\ type \in DurableTypes => buf'.events[k].seq = buf.nextSeq
    BY <1>0, <1>6, EmitInv DEF RecordInv
  <2>2. CASE k <= buf.tail
    <3>1. status = "terminal" /\ buf'.events[k].seq = termSeq
      BY <1>0, <1>6, <2>1, <2>2 DEF TermInv
    <3>2. status # "running"
      BY <3>1
    <3> QED BY <1>2, <3>1, <3>2, StatusStep
  <2>3. CASE ~(k <= buf.tail)
    <3>1. k = buf'.tail
      BY <1>1, <1>6, <2>1, <2>3
    <3>2. type = "terminal" /\ buf'.events[k].seq = buf.nextSeq
      BY <1>6, <2>1, <3>1 DEF DurableTypes
    <3> QED BY <1>2, <1>6, <3>2
  <2> QED BY <2>2, <2>3
<1>7. ASSUME NEW k \in (buf'.dropped + 1)..buf'.tail, buf'.events[k].type = "terminal"
      PROVE  status' = "terminal" /\ buf'.events[k].seq = termSeq'
  <2>1. CASE Finish
    BY <1>2, <1>6, <1>7, <2>1 DEF EventTypes, DurableTypes
  <2>2. CASE EmitDurable \/ EmitLossy
    BY <1>6, <1>7, <2>2 DEF EmitDurable, EmitLossy, EventTypes, DurableTypes
  <2>3. CASE Sweep
    <3>1. buf'.dropped = buf.dropped /\ buf'.tail = buf.dropped
      BY <2>3 DEF Sweep, Cleared
    <3> QED BY <1>1, <3>1
  <2>4. ASSUME buf' = buf, status' = status, termSeq' = termSeq
        PROVE  status' = "terminal" /\ buf'.events[k].seq = termSeq'
    BY <1>0, <1>7, <2>4 DEF TermInv
  <2>5. ASSUME NEW s \in Subs, EmitResync(s)
        PROVE  status' = "terminal" /\ buf'.events[k].seq = termSeq'
    BY <1>6, <1>7, <2>5 DEF EmitResync, EventTypes, DurableTypes
  <2>6. ASSUME NEW s \in Subs, Subscribe(s) \/ Disconnect(s)
        PROVE  buf' = buf /\ status' = status /\ termSeq' = termSeq
    BY <2>6 DEF Subscribe, Disconnect, bufVars
  <2>7. ASSUME NEW s \in Subs, Step(s), ~EmitResync(s)
        PROVE  buf' = buf /\ status' = status /\ termSeq' = termSeq
    BY <2>7 DEF Step, HasGap, Replay, MarkTail, YieldReplay, YieldFollow, Snap,
                WakeSync, WakeAsync, Heartbeat, FollowSnapshot, bufVars
  <2>8. CASE UNCHANGED vars
    BY <2>4, <2>8 DEF vars, bufVars
  <2> QED BY <2>1, <2>2, <2>3, <2>4, <2>5, <2>6, <2>7, <2>8 DEF Next
<1>8. ASSUME NEW s \in Subs, NEW k \in 1..Len(queue'[s]), queue'[s][k].type = "terminal"
      PROVE  status' = "terminal" /\ queue'[s][k].seq = termSeq'
  <2>1. status = "terminal" /\ queue'[s][k].seq = termSeq
    <3>1. CASE \E m \in 1..Len(queue[s]) : queue'[s][k] = queue[s][m]
      BY <1>0, <1>8, <3>1 DEF TermInv
    <3>2. CASE \E m \in (buf.dropped + 1)..buf.tail : queue'[s][k] = buf.events[m]
      BY <1>0, <1>8, <3>2 DEF TermInv
    <3> QED BY <1>8, <3>1, <3>2, QueueSources
  <2>2. status # "running"
    BY <2>1
  <2> QED BY <1>2, <2>1, <2>2, StatusStep
<1> QED BY <1>3, <1>4, <1>5, <1>7, <1>8 DEF TermInv

(* A stream of subscribe_async() that ends has delivered the end.          *)
LEMMA DoneStep ==
  ASSUME IInv, [Next]_vars, retained', NEW s \in Subs
  PROVE  DoneInv(s)'
<1> SUFFICES ASSUME s \in AsyncSubs, pc'[s] = "done", Undisturbed(s)'
             PROVE  termSeq' \in seen'[s]
  BY DEF DoneInv
<1>0. /\ TypeOK /\ TermInv /\ retained /\ CoverInv(s) /\ DoneInv(s)
      /\ QueueInv(s) /\ LocalInv(s) /\ s \notin SyncSubs
  BY BufferStep, SubsAssumption DEF IInv, RecordInv
<1>1. CASE Same(s)
  <2>1. Undisturbed(s) /\ pc[s] = "done" /\ seen'[s] = seen[s]
    BY <1>1 DEF Undisturbed, Same
  <2>2. status = "terminal"
    BY <1>0, <2>1 DEF TermInv
  <2>3. termSeq' = termSeq
    BY <2>2, StatusStep DEF Finish
  <2> QED BY <1>0, <2>1, <2>3 DEF DoneInv
<1>2. CASE YieldFollow(s)
  <2>1. /\ termSeq' = termSeq /\ pc[s] = "following"
        /\ Head(queue[s]).type = "terminal" /\ Head(queue[s]).seq > delivered[s]
    BY <1>0, <1>2 DEF YieldFollow, Goto, bufVars, TypeOK, GenTyped
  <2>2. queue[s] \in Seq(Event) /\ Len(queue[s]) > 0
    BY <1>0, <2>1 DEF QueueInv, TypeOK, GenTyped
  <2>3. Head(queue[s]) = queue[s][1] /\ 1 \in 1..Len(queue[s])
    BY <2>2, TailFacts
  <2>4. Head(queue[s]).seq = termSeq
    BY <1>0, <2>1, <2>3 DEF TermInv
  <2>5. Head(queue[s]).seq \in seen'[s]
    BY <1>0, <1>2, <2>1 DEF YieldFollow, Receive, TypeOK, ClientTyped
  <2> QED BY <2>1, <2>4, <2>5
<1>3. CASE Snap(s)
  <2>1. /\ pc[s] = "snap" /\ status = "terminal" /\ ~Stale(s) /\ Fresh(s) = <<>>
        /\ termSeq' = termSeq /\ seen'[s] = seen[s] /\ Undisturbed(s)
        /\ Behind(s) => ~\E n \in BufferedSeqs(buf, buf.dropped) : n > delivered[s]
    <3>1. FollowSnapshot(s, IF status = "terminal" THEN "done" ELSE "wait") /\ pc[s] = "snap"
      BY <1>3 DEF Snap
    <3>2. ~Stale(s) /\ Fresh(s) = <<>> /\ status = "terminal"
      BY <1>0, <3>1 DEF FollowSnapshot, Goto, TypeOK, GenTyped
    <3>3. /\ lagged'[s] = (lagged[s] \/ /\ ~Stale(s) /\ Behind(s)
                                        /\ \E n \in BufferedSeqs(buf, buf.dropped) : n > delivered[s])
          /\ overtaken'[s] = overtaken[s] /\ seen'[s] = seen[s] /\ termSeq' = termSeq
      BY <1>0, <3>1 DEF FollowSnapshot, bufVars, TypeOK, ClientTyped
    <3> QED BY <3>1, <3>2, <3>3 DEF Undisturbed
  <2>2. /\ termSeq > 0 /\ termSeq < buf.nextSeq /\ termSeq \in Nat
        /\ cursor[s] \in Nat /\ delivered[s] = cursor[s] /\ buf.evictedUpto \in Nat
        /\ index[s] \in Nat /\ Len(queue[s]) = 0
        /\ buf.tail \in Nat /\ buf.dropped \in Nat
    BY <1>0, <2>1, SubTyped DEF TermInv, LocalInv, Follow, QueueInv, TypeOK
  <2>3. 1..cursor[s] \subseteq seen[s] /\ PassedInv(s) /\ index[s] <= buf.tail
    BY <1>0, <2>1 DEF CoverInv, Open, Follow
  <2>4. CASE termSeq <= cursor[s]
    <3>1. termSeq \in 1..cursor[s]
      BY <2>2, <2>4
    <3> QED BY <2>1, <2>3, <3>1
  <2>5. CASE ~(termSeq <= cursor[s])
    <3>1. buf.evictedUpto < termSeq /\ termSeq > delivered[s]
      BY <2>1, <2>2, <2>5 DEF Stale
    <3>2. PICK k \in (buf.dropped + 1)..buf.tail : buf.events[k].seq = termSeq
      BY <1>0, <2>2, <3>1, BufferReads DEF IInv, RecordInv
    <3>3. ~Behind(s)
      <4>1. termSeq \in BufferedSeqs(buf, buf.dropped)
        BY <2>2, <3>2 DEF BufferedSeqs
      <4> QED BY <2>1, <3>1, <4>1
    <3>4. k <= index[s]
      <4>1. Window(buf, index[s]) = <<>> /\ buf.dropped <= index[s]
        BY <2>1, <2>2, <3>3 DEF Fresh, Behind
      <4>2. Len(Window(buf, index[s])) = buf.tail - index[s]
        BY <1>0, <2>2, <2>3, <4>1, WindowSeq DEF TypeOK
      <4>3. buf.tail - index[s] = 0
        BY <4>1, <4>2
      <4> QED BY <2>2, <4>3
    <3>5. ~ResyncAhead(s) /\ Pending(s) = {} /\ pc[s] \in Open
      BY <2>1, <2>2 DEF ResyncAhead, Pending, Open, Follow
    <3>6. termSeq \in seen[s]
      BY <2>2, <2>3, <3>2, <3>4, <3>5 DEF PassedInv
    <3> QED BY <2>1, <3>6
  <2> QED BY <2>4, <2>5
<1>4. CASE WakeSync(s)
  BY <1>0, <1>4 DEF WakeSync
<1>5. CASE Heartbeat(s)
  BY <1>0, <1>5 DEF Heartbeat, TermInv
<1>6. CASE Subscribe(s) \/ Disconnect(s) \/ HasGap(s) \/ Replay(s) \/ EmitResync(s)
           \/ MarkTail(s) \/ YieldReplay(s) \/ WakeAsync(s)
  BY <1>0, <1>6 DEF Subscribe, Disconnect, HasGap, Replay, EmitResync, MarkTail,
                    YieldReplay, WakeAsync, Goto, TypeOK, GenTyped
<1> QED BY <1>0, <1>1, <1>2, <1>3, <1>4, <1>5, <1>6, Frame DEF Step

(* Every step of the specification keeps the inductive invariant.          *)
LEMMA NextInv == IInv /\ [Next]_vars => IInv'
<1> SUFFICES ASSUME IInv, [Next]_vars PROVE IInv'
  OBVIOUS
<1>1. RecordInv'
  BY BufferStep, TypeStep DEF IInv, RecordInv
<1>2. \A s \in Subs : SubInv(s)'
  BY SubStep
<1>3. TermInv'
  BY TermStep
<1>4. retained' => \A s \in Subs : DoneInv(s)'
  BY DoneStep
<1> QED BY <1>1, <1>2, <1>3, <1>4 DEF IInv, SubInv

----------------------------------------------------------------------------
(* IInv holds in every reachable state of the event stream.                *)
THEOREM Invariance == Spec => []IInv
<1> QED BY InitInv, NextInv, PTL DEF Spec

(* The record, the generators' locals and the clients keep their types:    *)
(* emit, _trim, _finish, _sweep and both subscribe generators, interleaved.*)
THEOREM TypeCorrect == Spec => []TypeOK
<1>1. IInv => TypeOK
  BY DEF IInv, RecordInv
<1> QED BY <1>1, Invariance, PTL

(* _trim's incremental bookkeeping is exact for every buffer size and cap. *)
THEOREM BufferIsExact == Spec => []BufferExact
<1>1. ASSUME IInv, retained PROVE BufferExact
  <2>1. BufInv(buf) /\ BufLimits(buf) /\ BufFull(buf)
    BY <1>1 DEF IInv, RecordInv
  <2> DEFINE d == buf.durableIndex
  <2>2. /\ buf.nextSeq \in Nat /\ buf.evictedUpto \in Nat /\ Len(d) \in Nat
        /\ \A i \in 1..Len(d) : buf.events[d[i]].seq = buf.nextSeq - 1 - Len(d) + i
        /\ buf.evictedUpto + Len(d) <= buf.nextSeq - 1
        /\ buf.nextSeq - 1 <= buf.evictedUpto + Len(d)
    BY <2>1 DEF BufInv, BufTyped, BufSeqs, BufFull
  <2> HIDE DEF d
  <2>3. Len(d) = buf.nextSeq - 1 - buf.evictedUpto
    BY <2>2
  <2>4. \A i \in 1..Len(d) : buf.events[d[i]].seq = buf.evictedUpto + i
    <3> TAKE i \in 1..Len(d)
    <3>1. buf.nextSeq - 1 - Len(d) + i = buf.evictedUpto + i
      BY <2>2
    <3> QED BY <2>2, <3>1
  <2> QED BY <1>1, <2>1, <2>3, <2>4 DEF BufferExact, BufInv, BufListed, BufLimits, d
<1>2. IInv => BufferExact
  BY <1>1 DEF BufferExact
<1> QED BY <1>2, Invariance, PTL

(* I5 as far as the code keeps it, for any number of clients: unless a     *)
(* replay is overtaken by an eviction between its two critical sections,   *)
(* or a follower is moved on while behind, no durable event is skipped.    *)
THEOREM GapsAreTold == Spec => []NoSilentGap
<1>1. IInv => NoSilentGap
  BY DEF IInv, NoSilentGap, CoverInv
<1> QED BY <1>1, Invariance, PTL

(* A stream of subscribe_async() never ends without the terminal event.    *)
THEOREM AsyncEndsInformed == Spec => []EndsInformedAsync
<1>1. AsyncSubs \subseteq Subs
  BY DEF Subs
<1>2. IInv => EndsInformedAsync
  BY <1>1 DEF IInv, EndsInformedAsync, EndsInformed, DoneInv
<1> QED BY <1>2, Invariance, PTL

(* No step moves a client's cursor back, across reconnects and resyncs.    *)
THEOREM CursorNeverBack == Spec => CursorAdvances
<1>1. ASSUME IInv, [Next]_vars, NEW s \in Subs,
             cursor'[s] # cursor[s] \/ seen'[s] # seen[s]
      PROVE  cursor'[s] > cursor[s]
  <2>0. TypeOK
    BY <1>1 DEF IInv, RecordInv
  <2>1. CASE Pull(s)
    BY <1>1, <2>1 DEF Pull
  <2>2. CASE Subscribe(s) \/ Disconnect(s) \/ HasGap(s) \/ Replay(s) \/ EmitResync(s)
             \/ MarkTail(s) \/ WakeAsync(s) \/ Heartbeat(s)
    BY <1>1, <2>2 DEF Subscribe, Disconnect, HasGap, Replay, EmitResync, MarkTail,
                      WakeAsync, Heartbeat, cliVars
  <2>3. CASE Snap(s) \/ WakeSync(s)
    BY <1>1, <2>3 DEF Snap, WakeSync, FollowSnapshot
  <2>4. CASE Same(s)
    BY <1>1, <2>4 DEF Same
  <2> QED BY <1>1, <2>0, <2>1, <2>2, <2>3, <2>4, Frame, YieldReplayStep, YieldFollowStep DEF Step
<1>2. IInv /\ [Next]_vars =>
        [\A s \in Subs : cursor'[s] # cursor[s] \/ seen'[s] # seen[s]
                           => cursor'[s] > cursor[s]]_vars
  BY <1>1
<1> QED BY <1>2, Invariance, PTL DEF Spec, CursorAdvances

============================================================================
