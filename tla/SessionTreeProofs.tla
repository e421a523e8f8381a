-------------------------- MODULE SessionTreeProofs --------------------------
(***************************************************************************)
(* Proofs about SessionTree, for any branches, files and bounds: a branch  *)
(* carries no summary and no plan of entries that are not its own, and a   *)
(* /rewind that reports has brought the files back.                        *)
(***************************************************************************)
EXTENDS SessionTree, SequenceTheorems, WellFoundedInduction, TLAPS

IsSeq(s) == \E S : s \in Seq(S)

(* Every entry hangs on an earlier one.                                    *)
Tree(e) == IsSeq(e) /\ \A n \in 1..Len(e) : e[n].parent \in 0..(n - 1)

Running == {"compose", "gate", "tools", "results"}
Rewinding == {"dropCursor", "dropPlan", "restore"}
First == {"same", "saved", "unsaved"}

(* The tree, and where the run is in it: nobody else records while it does.*)
TreeInv ==
  /\ Tree(entries)
  /\ tip \in [Branches -> -1..Len(entries)]
  /\ cursor = [b \in Branches |-> cursor[b]]
  /\ plan \in [Branches -> Int]
  /\ branch \in Branches
  /\ pc \in Running \cup Rewinding \cup {"idle", "command", "report"}
  /\ pc \in Running => tip[branch] = Len(entries) /\ Len(entries) > 0
  /\ pc = "dropPlan" => cursor[branch] = None

(* The work tree, the snapshots and the ghost of what came first.          *)
DiskInv ==
  /\ files \in [Files -> Nat] /\ written \in Nat
  /\ snaps \subseteq [seq : 1..Len(entries), file : Files, was : Nat]
  /\ \A x, y \in snaps : x.seq = y.seq /\ x.file = y.file => x = y
  /\ at \in Seq([Files -> [was : Nat, first : First]])
  /\ Len(at) = Len(entries)

(* A file is written only after its snapshot at the tip.                   *)
ArmedInv ==
  /\ armed \subseteq Files
  /\ armed # {} => pc = "tools"
  /\ \A f \in armed : \E x \in snaps : x.seq = Len(entries) /\ x.file = f
  /\ pc = "tools" => \A f \in Files : at[Len(entries)][f].first = "unsaved"

SnapsOf(f, n) == {x \in snaps : x.seq > n /\ x.file = f}
IsEarliest(x, f, n) == x \in SnapsOf(f, n) /\ \A y \in SnapsOf(f, n) : x.seq <= y.seq

(* What a watched entry knows: a file that has not changed since is as it  *)
(* was and so is each of its snapshots; of one that was saved before it    *)
(* changed the earliest snapshot is.                                       *)
WatchInv ==
  \A n \in 1..Len(at), f \in Files :
    /\ at[n][f].first = "same" =>
         files[f] = at[n][f].was /\ \A x \in SnapsOf(f, n) : x.was = at[n][f].was
    /\ at[n][f].first = "saved" =>
         \E x \in snaps : IsEarliest(x, f, n) /\ x.was = at[n][f].was

Restored(f) == at[anchor][f].first # "unsaved" => files[f] = at[anchor][f].was

RewindInv ==
  /\ pc \in Rewinding => anchor \in 1..Len(entries)
  /\ pc \notin Rewinding \cup {"report"} => anchor = 0
  /\ anchor \in 0..Len(entries)
  /\ pc = "restore" =>
       /\ left \subseteq {x.file : x \in After(anchor)}
       /\ \A f \in Files \ (failed \cup left) : Restored(f)

IInv ==
  TreeInv /\ DiskInv /\ ArmedInv /\ WatchInv /\ RewindInv /\ RewindRestores /\ NoForeignSummary
----------------------------------------------------------------------------
(* Numbers and sequences.                                                  *)

(* A set of naturals has a least element.                                  *)
LEMMA LeastNumber ==
  ASSUME NEW S \in SUBSET Nat, S # {}
  PROVE  \E x \in S : \A y \in S : x <= y
<1> DEFINE R == {ss \in Nat \X Nat : ss[1] < ss[2]}
<1>1. IsWellFoundedOn(R, Nat)
  BY NatLessThanWellFounded DEF OpToRel
<1>2. PICK x \in S : \A y \in Nat : <<y, x>> \in R => y \notin S
  <2> HIDE DEF R
  <2> QED BY <1>1, WFMin
<1>3. \A y \in S : ~(y < x)
  BY <1>2
<1> QED BY <1>3

(* A set of entries has a last one, which is what Max is.                  *)
LEMMA MaxIs ==
  ASSUME NEW n \in Nat, NEW S \in SUBSET (1..n), S # {}
  PROVE  Max(S) \in S
<1> DEFINE T == {k \in 0..n : n - k \in S}
<1>1. T \in SUBSET Nat /\ T # {}
  <2>1. PICK x \in S : TRUE
    OBVIOUS
  <2>2. n - x \in 0..n /\ n - (n - x) = x
    OBVIOUS
  <2>3. n - x \in T
    BY <2>2
  <2>4. T \subseteq Nat
    OBVIOUS
  <2> HIDE DEF T
  <2> QED BY <2>3, <2>4
<1>2. PICK k \in T : \A j \in T : k <= j
  <2> HIDE DEF T
  <2> QED BY <1>1, LeastNumber
<1>3. n - k \in S
  OBVIOUS
<1>4. \A y \in S : n - y \in T
  OBVIOUS
<1>5. \A y \in S : n - k >= y
  BY <1>2, <1>4
<1> QED BY <1>3, <1>5 DEF Max

(* The parent of the next entry of a branch.                               *)
LEMMA MaxZero ==
  ASSUME NEW t \in Int
  PROVE  Max({t, 0}) = IF t > 0 THEN t ELSE 0
<1>1. CASE t > 0
  BY <1>1 DEF Max
<1>2. CASE ~(t > 0)
  BY <1>2 DEF Max
<1> QED BY <1>1, <1>2

(* What an append does, whatever the elements are.                         *)
LEMMA Appended ==
  ASSUME NEW s, IsSeq(s), NEW x
  PROVE  /\ IsSeq(Append(s, x)) /\ Len(s) \in Nat
         /\ Len(Append(s, x)) = Len(s) + 1
         /\ \A i \in 1..Len(s) : Append(s, x)[i] = s[i]
         /\ Append(s, x)[Len(s) + 1] = x
<1>1. PICK S : s \in Seq(S)
  BY DEF IsSeq
<1>2. s \in Seq(S \cup {x}) /\ x \in S \cup {x}
  BY <1>1
<1>3. Append(s, x) \in Seq(S \cup {x})
  BY <1>2
<1> QED BY <1>2, <1>3 DEF IsSeq

(* A sequence over a set is one over any larger set.                       *)
LEMMA Wider ==
  ASSUME NEW S, NEW T, S \subseteq T, NEW s \in Seq(S)
  PROVE  s \in Seq(T)
<1>1. Len(s) \in Nat /\ s = [i \in 1..Len(s) |-> s[i]] /\ \A i \in 1..Len(s) : s[i] \in T
  OBVIOUS
<1> QED BY <1>1

----------------------------------------------------------------------------
(* The chain of a tree.                                                    *)

UpTo(e, c, k) ==
  c = [n \in 0..k |-> IF n = 0 THEN <<>> ELSE Append(c[e[n].parent], n)]
IsChain(e, c) == UpTo(e, c, Len(e))

(* The recursion of scan_branch() has a solution, since every entry hangs  *)
(* on an earlier one.                                                      *)
LEMMA ChainExists ==
  ASSUME NEW e, Tree(e)
  PROVE  \E c : IsChain(e, c)
<1>1. Len(e) \in Nat
  BY DEF Tree, IsSeq
<1> DEFINE T == {k \in 0..Len(e) : ~ \E c : UpTo(e, c, k)}
<1>2. CASE T = {}
  BY <1>1, <1>2 DEF IsChain
<1>3. CASE T # {}
  <2>1. T \in SUBSET Nat
    BY <1>1
  <2>2. PICK k \in T : \A j \in T : k <= j
    <3> HIDE DEF T
    <3> QED BY <1>3, <2>1, LeastNumber
  <2>3. k \in 0..Len(e) /\ ~ \E c : UpTo(e, c, k)
    OBVIOUS
  <2>4. k # 0
    <3> DEFINE c == [n \in 0..0 |-> <<>>]
    <3>1. c = [n \in 0..0 |-> IF n = 0 THEN <<>> ELSE Append(c[e[n].parent], n)]
      OBVIOUS
    <3>2. UpTo(e, c, 0)
      BY <3>1 DEF UpTo
    <3> QED BY <2>3, <3>2
  <2>5. k - 1 \in 0..Len(e) /\ k - 1 \notin T
    BY <1>1, <2>2, <2>3, <2>4
  <2>6. PICK c : UpTo(e, c, k - 1)
    BY <2>5
  <2> DEFINE g == [n \in 0..k |-> IF n = k THEN Append(c[e[k].parent], k) ELSE c[n]]
  <2>7. \A n \in 1..k : e[n].parent \in 0..(n - 1)
    BY <1>1, <2>3 DEF Tree
  <2>8. \A n \in 0..(k - 1) : c[n] = IF n = 0 THEN <<>> ELSE Append(c[e[n].parent], n)
    BY <2>6 DEF UpTo
  <2>9. \A n \in 0..k : g[n] = IF n = 0 THEN <<>> ELSE Append(g[e[n].parent], n)
    <3> TAKE n \in 0..k
    <3>1. CASE n = k
      <4>1. e[k].parent \in 0..(k - 1)
        BY <2>3, <2>4, <2>7
      <4>2. g[e[k].parent] = c[e[k].parent]
        BY <4>1, <2>3
      <4> QED BY <3>1, <4>2, <2>4
    <3>2. CASE n # k /\ n # 0
      <4>1. e[n].parent \in 0..(n - 1) /\ n \in 0..(k - 1)
        BY <3>2, <2>3, <2>7
      <4>2. g[e[n].parent] = c[e[n].parent]
        BY <4>1, <2>3
      <4>3. g[n] = c[n]
        BY <3>2
      <4> QED BY <3>2, <4>1, <4>2, <4>3, <2>8
    <3>3. CASE n = 0
      BY <3>3, <2>4, <2>3, <2>8
    <3> QED BY <3>1, <3>2, <3>3
  <2>10. UpTo(e, g, k)
    BY <2>9 DEF UpTo
  <2> QED BY <2>3, <2>10
<1> QED BY <1>2, <1>3

(* So Chain is one.                                                        *)
LEMMA ChainIs ==
  ASSUME Tree(entries)
  PROVE  IsChain(entries, Chain)
BY ChainExists DEF Chain, IsChain, UpTo

(* A chain runs through earlier entries only.                              *)
LEMMA ChainTyped ==
  ASSUME NEW e, Tree(e), NEW c, IsChain(e, c)
  PROVE  \A n \in 0..Len(e) : c[n] \in Seq(1..n)
<1>1. Len(e) \in Nat
  BY DEF Tree, IsSeq
<1>2. \A n \in 0..Len(e) : c[n] = IF n = 0 THEN <<>> ELSE Append(c[e[n].parent], n)
  BY DEF IsChain, UpTo
<1> DEFINE T == {n \in 0..Len(e) : c[n] \notin Seq(1..n)}
<1>3. SUFFICES ASSUME T # {} PROVE FALSE
  OBVIOUS
<1>4. PICK k \in T : \A j \in T : k <= j
  <2>1. T \in SUBSET Nat
    BY <1>1
  <2> HIDE DEF T
  <2> QED BY <1>3, <2>1, LeastNumber
<1>5. k # 0
  <2>1. c[0] = <<>>
    BY <1>1, <1>2
  <2>2. c[0] \in Seq(1..0)
    BY <2>1
  <2> QED BY <2>2
<1>6. e[k].parent \in 0..(k - 1)
  BY <1>1, <1>5 DEF Tree
<1>7. e[k].parent \notin T
  BY <1>4, <1>6
<1>8. c[e[k].parent] \in Seq(1..e[k].parent)
  BY <1>1, <1>6, <1>7
<1>9. c[e[k].parent] \in Seq(1..k)
  <2>1. 1..e[k].parent \subseteq 1..k
    BY <1>6
  <2> DEFINE A == 1..e[k].parent
             B == 1..k
             w == c[e[k].parent]
  <2>2. A \subseteq B /\ w \in Seq(A)
    BY <1>8, <2>1
  <2>3. w \in Seq(B)
    <3> HIDE DEF A, B, w
    <3> QED BY <2>2, Wider
  <2> QED BY <2>3
<1>10. Append(c[e[k].parent], k) \in Seq(1..k)
  BY <1>5, <1>9
<1> QED BY <1>2, <1>5, <1>10

(* The entries of a chain: the one it starts from, and its parent's.       *)
LEMMA ChainSet ==
  ASSUME NEW e, Tree(e), NEW c, IsChain(e, c)
  PROVE  /\ ToSet(c[0]) = {}
         /\ \A n \in 0..Len(e) : ToSet(c[n]) \subseteq 1..n
         /\ \A n \in 1..Len(e) : ToSet(c[n]) = ToSet(c[e[n].parent]) \cup {n}
<1>1. Len(e) \in Nat
  BY DEF Tree, IsSeq
<1>2. \A n \in 0..Len(e) : c[n] = IF n = 0 THEN <<>> ELSE Append(c[e[n].parent], n)
  BY DEF IsChain, UpTo
<1>3. ToSet(c[0]) = {}
  BY <1>1, <1>2 DEF ToSet
<1>4. \A n \in 0..Len(e) : ToSet(c[n]) \subseteq 1..n
  BY ChainTyped DEF ToSet
<1>5. ASSUME NEW n \in 1..Len(e)
      PROVE  ToSet(c[n]) = ToSet(c[e[n].parent]) \cup {n}
  <2>1. e[n].parent \in 0..(n - 1)
    BY DEF Tree
  <2>2. c[e[n].parent] \in Seq(1..e[n].parent)
    <3>1. \A m \in 0..Len(e) : c[m] \in Seq(1..m)
      BY ChainTyped
    <3>2. e[n].parent \in 0..Len(e)
      BY <2>1, <1>1
    <3> QED BY <3>1, <3>2
  <2>3. c[n] = Append(c[e[n].parent], n)
    <3>1. n \in 0..Len(e) /\ n # 0
      BY <1>1
    <3> QED BY <1>2, <3>1
  <2> HIDE DEF IsChain
  <2>4. ASSUME NEW s \in Seq(1..e[n].parent)
        PROVE  ToSet(Append(s, n)) = ToSet(s) \cup {n}
    <3>1. s \in Seq(Int) /\ Append(s, n) \in Seq(Int) /\ Len(Append(s, n)) = Len(s) + 1
      BY <2>1
    <3>2. /\ \A i \in 1..Len(s) : Append(s, n)[i] = s[i]
          /\ Append(s, n)[Len(s) + 1] = n
      BY <3>1
    <3>3. DOMAIN s = 1..Len(s) /\ DOMAIN Append(s, n) = 1..(Len(s) + 1) /\ Len(s) \in Nat
      BY <3>1
    <3>4. ToSet(s) \subseteq ToSet(Append(s, n))
      BY <3>2, <3>3 DEF ToSet
    <3>5. n \in ToSet(Append(s, n))
      BY <3>2, <3>3 DEF ToSet
    <3>6. \A i \in 1..(Len(s) + 1) : Append(s, n)[i] \in ToSet(s) \cup {n}
      BY <3>2, <3>3 DEF ToSet
    <3>7. ToSet(Append(s, n)) \subseteq ToSet(s) \cup {n}
      BY <3>3, <3>6 DEF ToSet
    <3> QED BY <3>4, <3>5, <3>7
  <2> QED BY <2>2, <2>3, <2>4
<1> QED BY <1>3, <1>4, <1>5

(* The chains of a tree stay when it grows.                                *)
LEMMA ChainStays ==
  ASSUME NEW e, Tree(e), NEW c, IsChain(e, c),
         NEW d, Tree(d), NEW g, IsChain(d, g),
         Len(e) <= Len(d), \A i \in 1..Len(e) : d[i] = e[i]
  PROVE  \A n \in 0..Len(e) : g[n] = c[n]
<1>1. Len(e) \in Nat /\ Len(d) \in Nat
  BY DEF Tree, IsSeq
<1>2. \A n \in 0..Len(e) : c[n] = IF n = 0 THEN <<>> ELSE Append(c[e[n].parent], n)
  BY DEF IsChain, UpTo
<1>3. \A n \in 0..Len(d) : g[n] = IF n = 0 THEN <<>> ELSE Append(g[d[n].parent], n)
  BY DEF IsChain, UpTo
<1> DEFINE T == {n \in 0..Len(e) : g[n] # c[n]}
<1>4. SUFFICES ASSUME T # {} PROVE FALSE
  OBVIOUS
<1>5. PICK k \in T : \A j \in T : k <= j
  <2>1. T \in SUBSET Nat
    BY <1>1
  <2> HIDE DEF T
  <2> QED BY <1>4, <2>1, LeastNumber
<1>6. k # 0
  BY <1>1, <1>2, <1>3
<1>7. e[k].parent \in 0..(k - 1) /\ d[k] = e[k] /\ k \in 0..Len(d)
  BY <1>1, <1>6 DEF Tree
<1>8. e[k].parent \notin T
  BY <1>5, <1>7
<1>9. g[e[k].parent] = c[e[k].parent]
  BY <1>1, <1>7, <1>8
<1>10. c[k] = Append(c[e[k].parent], k) /\ g[k] = Append(g[e[k].parent], k)
  BY <1>2, <1>3, <1>6, <1>7
<1> QED BY <1>9, <1>10
On(b) == ToSet(ChainOf(b))

(* What is on a branch in a state.                                         *)
LEMMA OnIs ==
  ASSUME Tree(entries), NEW b, tip[b] \in -1..Len(entries)
  PROVE  /\ On(b) = IF tip[b] <= 0 THEN {} ELSE ToSet(Chain[tip[b]])
         /\ On(b) \subseteq 1..Len(entries)
         /\ tip[b] > 0 => tip[b] \in On(b)
<1>1. Len(entries) \in Nat
  BY DEF Tree, IsSeq
<1>2. IsChain(entries, Chain)
  BY ChainIs
<1>3. On(b) = IF tip[b] <= 0 THEN {} ELSE ToSet(Chain[tip[b]])
  BY DEF On, ChainOf, ToSet
<1>4. /\ \A n \in 0..Len(entries) : ToSet(Chain[n]) \subseteq 1..n
      /\ \A n \in 1..Len(entries) : ToSet(Chain[n]) = ToSet(Chain[entries[n].parent]) \cup {n}
  BY <1>2, ChainSet
<1>5. CASE tip[b] <= 0
  BY <1>1, <1>3, <1>5
<1>6. CASE ~(tip[b] <= 0)
  <2>1. tip[b] \in 1..Len(entries) /\ tip[b] \in 0..Len(entries)
    BY <1>1, <1>6
  <2>2. ToSet(Chain[tip[b]]) \subseteq 1..tip[b] /\ tip[b] \in ToSet(Chain[tip[b]])
    BY <1>4, <2>1
  <2>3. On(b) = ToSet(Chain[tip[b]])
    BY <1>3, <1>6
  <2>4. 1..tip[b] \subseteq 1..Len(entries)
    BY <1>1, <2>1
  <2> QED BY <1>3, <2>2, <2>3, <2>4
<1> QED BY <1>3, <1>5, <1>6

Prefix(e, d) == Len(e) <= Len(d) /\ \A i \in 1..Len(e) : d[i] = e[i]

(* Chain in the next state.                                                *)
LEMMA ChainIsNext ==
  ASSUME Tree(entries')
  PROVE  IsChain(entries', Chain')
BY ChainExists DEF Chain, IsChain, UpTo

(* A branch whose tip stays keeps what is on it.                           *)
LEMMA OnStays ==
  ASSUME Tree(entries), Tree(entries'), Prefix(entries, entries'),
         NEW b, tip[b] \in -1..Len(entries), tip'[b] = tip[b]
  PROVE  On(b)' = On(b)
<1>1. Len(entries) \in Nat
  BY DEF Tree, IsSeq
<1>2. \A n \in 0..Len(entries) : Chain'[n] = Chain[n]
  BY ChainIs, ChainIsNext, ChainStays DEF Prefix
<1>3. CASE tip[b] <= 0
  BY <1>3 DEF On, ChainOf
<1>4. CASE ~(tip[b] <= 0)
  <2>1. Chain'[tip[b]] = Chain[tip[b]]
    BY <1>1, <1>2, <1>4
  <2>2. ChainOf(b)' = ChainOf(b)
    BY <1>4, <2>1 DEF ChainOf
  <2> QED BY <2>2 DEF On
<1> QED BY <1>3, <1>4

(* One entry more: the tree, its tips and what is on the branches.         *)
LEMMA Recorded ==
  ASSUME Tree(entries), tip \in [Branches -> -1..Len(entries)],
         NEW b \in Branches, NEW m, NEW type, Record(b, m, type)
  PROVE  /\ Tree(entries') /\ Len(entries) \in Nat /\ Len(entries') = Len(entries) + 1
         /\ Prefix(entries, entries')
         /\ tip' \in [Branches -> -1..Len(entries')] /\ tip'[b] = Len(entries')
         /\ \A d \in Branches : On(d) \subseteq On(d)'
<1>1. /\ IsSeq(entries') /\ Len(entries) \in Nat /\ Len(entries') = Len(entries) + 1
      /\ \A i \in 1..Len(entries) : entries'[i] = entries[i]
      /\ entries'[Len(entries) + 1].parent = Max({tip[b], 0})
  BY Appended DEF Record, Tree
<1>2. Max({tip[b], 0}) = IF tip[b] > 0 THEN tip[b] ELSE 0
  <2>1. tip[b] \in Int
    BY <1>1
  <2> QED BY <2>1, MaxZero
<1>3. Tree(entries')
  <2>1. ASSUME NEW n \in 1..Len(entries') PROVE entries'[n].parent \in 0..(n - 1)
    <3>1. CASE n = Len(entries) + 1
      BY <1>1, <1>2, <3>1
    <3>2. CASE n \in 1..Len(entries)
      BY <1>1, <3>2 DEF Tree
    <3> QED BY <1>1, <3>1, <3>2
  <2> QED BY <1>1, <2>1 DEF Tree
<1>4. Prefix(entries, entries')
  BY <1>1 DEF Prefix
<1>5. tip' = [tip EXCEPT ![b] = Len(entries) + 1]
  BY DEF Record, NewId
<1>6. tip' \in [Branches -> -1..Len(entries')] /\ tip'[b] = Len(entries')
  BY <1>1, <1>5
<1>7. ASSUME NEW d \in Branches PROVE On(d) \subseteq On(d)'
  <2>1. CASE d # b
    <3>1. tip'[d] = tip[d]
      BY <1>5, <2>1
    <3> QED BY <1>3, <1>4, <3>1, OnStays
  <2>2. CASE d = b
    <3>1. \A n \in 0..Len(entries) : Chain'[n] = Chain[n]
      BY <1>3, <1>4, ChainIs, ChainIsNext, ChainStays DEF Prefix
    <3>2. ToSet(Chain'[Len(entries')]) =
            ToSet(Chain'[entries'[Len(entries')].parent]) \cup {Len(entries')}
      <4>1. Len(entries') \in 1..Len(entries')
        BY <1>1
      <4>2. \A n \in 1..Len(entries') : ToSet(Chain'[n]) = ToSet(Chain'[entries'[n].parent]) \cup {n}
        BY <1>3, ChainIsNext, ChainSet
      <4> QED BY <4>1, <4>2
    <3>3. On(b)' = ToSet(Chain'[Len(entries')])
      <4>1. ~(tip'[b] <= 0)
        BY <1>1, <1>6
      <4> QED BY <1>6, <4>1 DEF On, ChainOf
    <3>4. CASE tip[b] > 0
      <4>1. entries'[Len(entries')].parent = tip[b] /\ tip[b] \in 0..Len(entries)
        BY <1>1, <1>2, <3>4
      <4>2. On(b) = ToSet(Chain[tip[b]])
        BY <3>4, OnIs
      <4> QED BY <2>2, <3>1, <3>2, <3>3, <4>1, <4>2
    <3>5. CASE ~(tip[b] > 0)
      <4>1. On(b) = {}
        BY <3>5, OnIs
      <4> QED BY <2>2, <4>1
    <3> QED BY <3>4, <3>5
  <2> QED BY <2>1, <2>2
<1> QED BY <1>1, <1>3, <1>4, <1>6, <1>7
----------------------------------------------------------------------------
(* Steps that record an entry.                                             *)

USE DEF Running, Rewinding

Own(b) ==
  /\ cursor[b].through \in On(b) \cup {0}
  /\ plan[b] \in On(b) \cup {-1}

(* The work tree as the new entry sees it.                                 *)
LEMMA Watched ==
  ASSUME DiskInv, NEW b, NEW m, NEW type, Record(b, m, type)
  PROVE  /\ at' \in Seq([Files -> [was : Nat, first : First]])
         /\ Len(at) \in Nat /\ Len(at') = Len(at) + 1
         /\ \A i \in 1..Len(at) : at'[i] = at[i]
         /\ \A f \in Files : /\ at'[Len(at) + 1][f].first # "saved"
                             /\ at'[Len(at) + 1][f].first = "same" =>
                                  at'[Len(at) + 1][f].was = files[f]
                             /\ m.role # "user" => at'[Len(at) + 1][f].first = "unsaved"
<1> DEFINE W == [Files -> [was : Nat, first : First]]
           new == IF m.role = "user" /\ type = "message"
                  THEN [f \in Files |-> [was |-> files[f], first |-> "same"]]
                  ELSE Unwatched
<1>1. new \in W
  BY DEF DiskInv, First, Unwatched
<1>2. at' = Append(at, new) /\ at \in Seq(W)
  BY DEF Record, DiskInv
<1>3. \A f \in Files : /\ new[f].first # "saved"
                       /\ new[f].first = "same" => new[f].was = files[f]
                       /\ m.role # "user" => new[f].first = "unsaved"
  BY DEF Unwatched
<1> HIDE DEF W, new
<1>4. /\ at' \in Seq(W) /\ Len(at) \in Nat /\ Len(at') = Len(at) + 1
      /\ \A i \in 1..Len(at) : at'[i] = at[i]
      /\ at'[Len(at) + 1] = new
  BY <1>1, <1>2
<1> QED BY <1>3, <1>4 DEF W

(* No snapshot is newer than the new entry, and the others keep theirs.    *)
LEMMA RecordWatches ==
  ASSUME Tree(entries), DiskInv, WatchInv,
         NEW b \in Branches, NEW m, NEW type, Record(b, m, type),
         UNCHANGED <<files, written, snaps>>
  PROVE  DiskInv' /\ WatchInv'
<1>1. Len(entries) \in Nat /\ Len(entries') = Len(entries) + 1
  BY Appended DEF Record, Tree
<1>2. DiskInv'
  <2>1. snaps' \subseteq [seq : 1..Len(entries'), file : Files, was : Nat]
    <3>1. 1..Len(entries) \subseteq 1..Len(entries')
      BY <1>1
    <3> QED BY <3>1 DEF DiskInv
  <2> QED BY <1>1, <2>1, Watched DEF DiskInv
<1>3. ASSUME NEW n \in 1..Len(at'), NEW f \in Files
      PROVE  /\ at'[n][f].first = "same" =>
                  /\ files'[f] = at'[n][f].was
                  /\ \A x \in SnapsOf(f, n)' : x.was = at'[n][f].was
             /\ at'[n][f].first = "saved" =>
                  \E x \in snaps' : IsEarliest(x, f, n)' /\ x.was = at'[n][f].was
  <2>1. CASE n \in 1..Len(at)
    <3>1. at'[n] = at[n]
      BY <2>1, Watched
    <3> QED BY <2>1, <3>1 DEF WatchInv, SnapsOf, IsEarliest
  <2>2. CASE n = Len(at) + 1
    <3>1. SnapsOf(f, n)' = {}
      <4>1. \A x \in snaps : ~(x.seq > n)
        BY <1>1, <2>2 DEF DiskInv
      <4> QED BY <4>1 DEF SnapsOf
    <3> QED BY <2>2, <3>1, Watched
  <2> QED BY <2>1, <2>2, Watched
<1> QED BY <1>2, <1>3 DEF WatchInv

(* Such a step keeps the invariant.                                        *)
LEMMA RecordKeeps ==
  ASSUME IInv, NEW b \in Branches, NEW m, NEW type, Record(b, m, type),
         UNCHANGED <<cursor, plan, files, written, snaps>>,
         torn' = torn \cup (IF HalfWay THEN {branch} ELSE {}),
         armed' = {}, anchor' = 0, branch' \in Branches,
         pc' \in Running \cup {"idle"},
         pc' \in Running => branch' = b,
         pc' = "tools" => m.role # "user"
  PROVE  IInv'
<1>1. /\ Tree(entries') /\ Len(entries) \in Nat /\ Len(entries') = Len(entries) + 1
      /\ tip' \in [Branches -> -1..Len(entries')] /\ tip'[b] = Len(entries')
      /\ \A d \in Branches : On(d) \subseteq On(d)'
  BY Recorded DEF IInv, TreeInv
<1>2. TreeInv'
  BY <1>1 DEF IInv, TreeInv
<1>3. DiskInv' /\ WatchInv'
  BY RecordWatches DEF IInv, TreeInv
<1>4. ArmedInv'
  <2>1. pc' = "tools" => \A f \in Files : at'[Len(entries')][f].first = "unsaved"
    BY <1>1, Watched DEF IInv, DiskInv
  <2> QED BY <2>1 DEF ArmedInv
<1>5. RewindInv'
  BY <1>1 DEF RewindInv
<1>6. RewindRestores'
  BY DEF RewindRestores
<1>7. NoForeignSummary'
  <2>1. \A d \in Branches \ torn' : Own(d)
    BY DEF IInv, NoForeignSummary, Own, On
  <2>2. \A d \in Branches \ torn' : Own(d)'
    BY <1>1, <2>1 DEF Own
  <2> QED BY <2>2 DEF NoForeignSummary, Own, On
<1> QED BY <1>2, <1>3, <1>4, <1>5, <1>6, <1>7 DEF IInv
(* The actions of a run that record an entry.                              *)
LEMMA RunRecords ==
  ASSUME IInv,
         \/ \E b \in Branches : StartRun(b)
         \/ Command \/ Reply \/ \E k \in 1..CallBound : ReplyCalls(k)
         \/ \E type \in {"message", "notice"} : GoOn(type)
         \/ RecordResult
  PROVE  IInv'
<1>0. /\ Main \in Branches /\ branch \in Branches
      /\ pc \notin Rewinding \cup {"report"} => anchor = 0
      /\ armed # {} => pc = "tools"
  BY TreeAssumption DEF IInv, TreeInv, RewindInv, ArmedInv
<1>1. ASSUME NEW b \in Branches, StartRun(b) PROVE IInv'
  <2>1. /\ Record(b, UserSays(NewId), "message") /\ pc = "idle" /\ pc' = "compose" /\ branch' = b
        /\ UNCHANGED <<cursor, plan, files, written, snaps, armed, torn, anchor>>
    BY <1>1 DEF StartRun, diskVars, rewindVars
  <2> QED BY <1>0, <2>1, RecordKeeps DEF HalfWay
<1>2. CASE Command
  <2>1. /\ Record(branch, AssistantSays(NewId), "message")
        /\ pc = "command" /\ pc' = "idle" /\ branch' = Main
        /\ UNCHANGED <<cursor, plan, files, written, snaps, armed, torn, anchor>>
    BY <1>2 DEF Command, Over, diskVars, rewindVars
  <2> QED BY <1>0, <2>1, RecordKeeps DEF HalfWay
<1>3. CASE Reply
  <2>1. /\ Record(branch, AssistantSays(NewId), "message")
        /\ pc = "compose" /\ pc' = "gate" /\ branch' = branch
        /\ UNCHANGED <<cursor, plan, files, written, snaps, armed, torn, anchor>>
    BY <1>3 DEF Reply, Say, diskVars, rewindVars
  <2> QED BY <1>0, <2>1, RecordKeeps DEF HalfWay
<1>4. ASSUME NEW k \in 1..CallBound, ReplyCalls(k) PROVE IInv'
  <2> DEFINE m == Message("assistant", NewId, [i \in 1..k |-> 2 * NewId + i - 1], 0)
  <2>1. /\ Record(branch, m, "message")
        /\ pc = "compose" /\ pc' = "tools" /\ branch' = branch
        /\ UNCHANGED <<cursor, plan, files, written, snaps, armed, torn, anchor>>
    BY <1>4 DEF ReplyCalls, Say, diskVars, rewindVars
  <2>2. m.role # "user"
    BY DEF Message
  <2> HIDE DEF m
  <2> QED BY <1>0, <2>1, <2>2, RecordKeeps DEF HalfWay
<1>5. ASSUME NEW type \in {"message", "notice"}, GoOn(type) PROVE IInv'
  <2>1. /\ Record(branch, UserSays(NewId), type)
        /\ pc = "gate" /\ pc' = "compose" /\ branch' = branch
        /\ UNCHANGED <<cursor, plan, files, written, snaps, armed, torn, anchor>>
    BY <1>5 DEF GoOn, Say, diskVars, rewindVars
  <2> QED BY <1>0, <2>1, RecordKeeps DEF HalfWay
<1>6. CASE RecordResult
  <2> DEFINE m == Answer(Min(Expected(live, Len(live))), NewId)
  <2>1. /\ Record(branch, m, "message") /\ armed = {}
        /\ pc \in {"tools", "results"} /\ pc' \in {"compose", "results"} /\ branch' = branch
        /\ UNCHANGED <<cursor, plan, files, written, snaps, armed, torn, anchor>>
    BY <1>6 DEF RecordResult, Say, diskVars, rewindVars
  <2> HIDE DEF m
  <2> QED BY <1>0, <2>1, RecordKeeps DEF HalfWay
<1> QED BY <1>1, <1>2, <1>3, <1>4, <1>5, <1>6

----------------------------------------------------------------------------
(* Steps that leave entries, files and snapshots alone.                    *)

(* What is on a branch depends on the entries and its tip only.            *)
LEMMA OnSame ==
  ASSUME entries' = entries, NEW b, tip'[b] = tip[b]
  PROVE  On(b)' = On(b)
BY DEF On, ChainOf, Chain

(* The part of the invariant that is about the disk.                       *)
LEMMA DiskSame ==
  ASSUME DiskInv, WatchInv, UNCHANGED <<entries, files, written, snaps, at>>
  PROVE  DiskInv' /\ WatchInv'
<1>1. DiskInv'
  BY DEF DiskInv
<1>2. \A f, n : SnapsOf(f, n)' = SnapsOf(f, n)
  BY DEF SnapsOf
<1>3. WatchInv'
  BY <1>2 DEF WatchInv, IsEarliest
<1> QED BY <1>1, <1>3

(* The ends of a run and the steps that only change what it is doing.      *)
LEMMA QuietKeeps ==
  ASSUME IInv,
         \/ Finish \/ BreakOff \/ \E b \in Branches : StartCommand(b)
         \/ Report /\ branch # Main /\ tip[branch] = -1
  PROVE  IInv'
<1>1. /\ UNCHANGED <<entries, tip, cursor, plan, files, written, snaps, at>>
      /\ armed' \in {armed, {}} /\ (armed' = {} \/ pc # "tools")
      /\ pc' \in {"idle", "command"} /\ branch' \in Branches /\ anchor' = 0
      /\ torn' = torn \cup (IF HalfWay THEN {branch} ELSE {})
  BY TreeAssumption
     DEF IInv, TreeInv, ArmedInv, RewindInv, Finish, BreakOff, Drop, StartCommand, Report, Over, HalfWay,
         treeVars, diskVars, rewindVars
<1>2. TreeInv'
  BY <1>1 DEF IInv, TreeInv
<1>3. DiskInv' /\ WatchInv'
  BY <1>1, DiskSame DEF IInv
<1>4. ArmedInv'
  BY <1>1 DEF IInv, ArmedInv
<1>5. RewindInv'
  BY <1>1 DEF IInv, RewindInv, TreeInv, Tree, IsSeq
<1>6. RewindRestores'
  BY <1>1 DEF RewindRestores
<1>7. NoForeignSummary'
  <2>1. \A d \in Branches \ torn' : Own(d)
    BY <1>1 DEF IInv, NoForeignSummary, Own, On
  <2>2. \A d \in Branches : On(d)' = On(d)
    BY <1>1, OnSame
  <2>3. \A d \in Branches \ torn' : Own(d)'
    BY <1>1, <2>1, <2>2 DEF Own
  <2> QED BY <2>3 DEF NoForeignSummary, Own, On
<1> QED BY <1>2, <1>3, <1>4, <1>5, <1>6, <1>7 DEF IInv

(* A report records an entry, or finds its branch gone.                    *)
LEMMA ReportKeeps ==
  ASSUME IInv, Report
  PROVE  IInv'
<1>1. CASE branch # Main /\ tip[branch] = -1
  BY <1>1, QuietKeeps
<1>2. CASE ~(branch # Main /\ tip[branch] = -1)
  <2>1. /\ Record(branch, AssistantSays(NewId), "message")
        /\ pc = "report" /\ pc' = "idle" /\ branch' = Main /\ anchor' = 0
        /\ UNCHANGED <<cursor, plan, files, written, snaps, armed, torn>>
    BY <1>2 DEF Report, Over, diskVars, rewindVars
  <2>2. Main \in Branches /\ branch \in Branches /\ armed = {}
    BY <2>1, TreeAssumption DEF IInv, TreeInv, ArmedInv
  <2> QED BY <2>1, <2>2, RecordKeeps DEF HalfWay
<1> QED BY <1>1, <1>2

(* A run that fails records an entry, wherever it was.                     *)
LEMMA FailKeeps ==
  ASSUME IInv, Fail
  PROVE  IInv'
<1>1. /\ Record(branch, AssistantSays(NewId), "error")
      /\ pc' = "idle" /\ branch' = Main /\ anchor' = 0 /\ armed' = {}
      /\ torn' = torn \cup (IF HalfWay THEN {branch} ELSE {})
      /\ UNCHANGED <<cursor, plan, files, written, snaps>>
  BY DEF Fail, Drop, Over
<1>2. Main \in Branches /\ branch \in Branches
  BY TreeAssumption DEF IInv, TreeInv
<1> QED BY <1>1, <1>2, RecordKeeps DEF Running

(* A compaction covers the chain up to the tip, a plan is written at it,   *)
(* and a new branch has had no entry to summarize.                         *)
LEMMA ValuesKeep ==
  ASSUME IInv,
         \/ \E force \in BOOLEAN : Compact(force) \/ RecordPlan(force)
         \/ \E b \in Branches, n \in 0..Len(entries) : CreateBranch(b, n)
  PROVE  IInv'
<1>1. /\ UNCHANGED <<entries, files, written, snaps, at, armed, pc, branch, anchor, left, failed, torn>>
      /\ pc \in {"compose", "command", "tools", "idle"}
  BY DEF Compact, RecordPlan, CreateBranch, runVars, diskVars, rewindVars
<1>2. DiskInv' /\ WatchInv' /\ ArmedInv'
  BY <1>1, DiskSame DEF IInv, ArmedInv
<1>3. RewindInv'
  BY <1>1 DEF IInv, RewindInv, TreeInv, Tree, IsSeq
<1>4. RewindRestores'
  BY <1>1 DEF RewindRestores
<1>5. /\ Tree(entries) /\ branch \in Branches /\ tip \in [Branches -> -1..Len(entries)]
      /\ Len(entries) \in Nat
  BY DEF IInv, TreeInv, Tree, IsSeq
<1>6. \A d \in Branches \ torn : Own(d)
  BY <1>1 DEF IInv, NoForeignSummary, Own, On, HalfWay
<1>7. TreeInv' /\ \A d \in Branches \ torn : Own(d)'
  <2>1. ASSUME NEW force \in BOOLEAN, Compact(force)
        PROVE  TreeInv' /\ \A d \in Branches \ torn : Own(d)'
    <3>1. PICK new : new.through = tip[branch] /\ cursor' = [cursor EXCEPT ![branch] = new]
      BY <2>1 DEF Compact
    <3>2. UNCHANGED <<tip, plan>> /\ tip[branch] > 0
      BY <2>1 DEF Compact
    <3>3. \A d \in Branches : On(d)' = On(d)
      BY <1>1, <3>2, OnSame
    <3>4. tip[branch] \in On(branch)
      BY <1>5, <3>2, OnIs
    <3>5. TreeInv'
      BY <1>1, <3>1, <3>2 DEF IInv, TreeInv
    <3>6. \A d \in Branches : cursor'[d].through \in {cursor[d].through} \cup (IF d = branch THEN {tip[branch]} ELSE {})
      BY <3>1 DEF IInv, TreeInv
    <3>7. \A d \in Branches \ torn : Own(d)'
      BY <1>6, <3>2, <3>3, <3>4, <3>6 DEF Own
    <3> QED BY <3>5, <3>7
  <2>2. ASSUME NEW open \in BOOLEAN, RecordPlan(open)
        PROVE  TreeInv' /\ \A d \in Branches \ torn : Own(d)'
    <3>1. /\ UNCHANGED <<tip, cursor>> /\ pc = "tools"
          /\ plan' = [plan EXCEPT ![branch] = IF open THEN tip[branch] ELSE -1]
      BY <2>2 DEF RecordPlan
    <3>2. tip[branch] > 0 /\ tip[branch] \in Int
      BY <1>5, <3>1 DEF IInv, TreeInv
    <3>3. \A d \in Branches : On(d)' = On(d)
      BY <1>1, <3>1, OnSame
    <3>4. tip[branch] \in On(branch)
      BY <1>5, <3>2, OnIs
    <3>5. TreeInv'
      BY <1>1, <3>1, <3>2 DEF IInv, TreeInv
    <3>6. \A d \in Branches \ torn : Own(d)'
      BY <1>6, <3>1, <3>3, <3>4 DEF Own, IInv, TreeInv
    <3> QED BY <3>5, <3>6
  <2>3. ASSUME NEW b \in Branches, NEW n \in 0..Len(entries), CreateBranch(b, n)
        PROVE  TreeInv' /\ \A d \in Branches \ torn : Own(d)'
    <3>1. /\ UNCHANGED <<cursor, plan>> /\ tip[b] = -1 /\ tip' = [tip EXCEPT ![b] = n] /\ pc = "idle"
      BY <2>3 DEF CreateBranch
    <3>2. \A d \in Branches \ {b} : On(d)' = On(d)
      BY <1>1, <1>5, <3>1, OnSame
    <3>3. On(b) = {}
      BY <1>5, <3>1, OnIs
    <3>4. TreeInv'
      BY <1>1, <1>5, <3>1 DEF IInv, TreeInv
    <3>5. \A d \in Branches : On(d) \subseteq On(d)'
      BY <3>2, <3>3
    <3>6. \A d \in Branches \ torn : Own(d)'
      BY <1>6, <3>1, <3>5 DEF Own
    <3> QED BY <3>4, <3>6
  <2> QED BY <2>1, <2>2, <2>3
<1>8. NoForeignSummary'
  BY <1>1, <1>7 DEF NoForeignSummary, Own, On
<1> QED BY <1>2, <1>3, <1>4, <1>7, <1>8 DEF IInv
----------------------------------------------------------------------------
(* Steps that save or write a file.                                        *)

(* Of several snapshots of a file one is the earliest.                     *)
LEMMA EarliestExists ==
  ASSUME DiskInv, NEW f, NEW n, SnapsOf(f, n) # {}
  PROVE  \E x \in snaps : IsEarliest(x, f, n)
<1> DEFINE T == {x.seq : x \in SnapsOf(f, n)}
<1>1. T \in SUBSET Nat /\ T # {}
  BY DEF SnapsOf, DiskInv
<1>2. PICK k \in T : \A j \in T : k <= j
  <2> HIDE DEF T
  <2> QED BY <1>1, LeastNumber
<1>3. PICK x \in SnapsOf(f, n) : x.seq = k
  OBVIOUS
<1>4. \A y \in SnapsOf(f, n) : x.seq <= y.seq
  BY <1>2, <1>3
<1> QED BY <1>4 DEF IsEarliest, SnapsOf

(* It is the one restore() takes.                                          *)
LEMMA EarliestIs ==
  ASSUME DiskInv, NEW f, NEW n, NEW x \in snaps, IsEarliest(x, f, n)
  PROVE  Earliest(f, n) = x
<1> DEFINE Q(z) == z \in After(n) /\ z.file = f /\ \A y \in After(n) : y.file = f => y.seq >= z.seq
<1>1. \A z \in snaps : z.seq \in Nat
  BY DEF DiskInv
<1>2. Q(x)
  BY <1>1 DEF IsEarliest, SnapsOf, After
<1>3. ASSUME NEW z, Q(z) PROVE z = x
  <2>1. z \in snaps /\ z.seq >= x.seq /\ x.seq >= z.seq /\ z.file = x.file
    BY <1>1, <1>2, <1>3 DEF After, IsEarliest, SnapsOf
  <2>2. z.seq = x.seq
    BY <1>1, <2>1
  <2> QED BY <2>1, <2>2 DEF DiskInv
<1>4. Earliest(f, n) = CHOOSE z : Q(z)
  BY Zenon DEF Earliest
<1> HIDE DEF Q
<1> QED BY <1>2, <1>3, <1>4

(* A write, told as what it is: saved if its file has a snapshot after     *)
(* every entry that still sees it unchanged.                               *)
LEMMA PutKeeps ==
  ASSUME DiskInv, WatchInv, NEW f \in Files, NEW c \in Nat,
         NEW how \in {"saved", "unsaved"}, Put(f, c, how), UNCHANGED <<entries, snaps>>, written' \in Nat,
         how = "saved" =>
           \A n \in 1..Len(at) : at[n][f].first = "same" => SnapsOf(f, n) # {}
  PROVE  /\ DiskInv' /\ WatchInv' /\ files' = [files EXCEPT ![f] = c] /\ Len(at') = Len(at)
         /\ \A n \in 1..Len(at), g \in Files :
              /\ at'[n][g].was = at[n][g].was
              /\ at'[n][g].first # "unsaved" => at[n][g].first # "unsaved"
              /\ at[n][g].first = "unsaved" => at'[n][g].first = "unsaved"
              /\ g # f => at'[n][g] = at[n][g]
              /\ c = files[f] => at'[n][g] = at[n][g]
<1> DEFINE W == [was : Nat, first : First]
<1>0. at \in Seq([Files -> W]) /\ Len(at) \in Nat /\ \A n \in 1..Len(at) : at[n] \in [Files -> W]
  BY DEF DiskInv
<1>1. files' = [files EXCEPT ![f] = c] /\ files' \in [Files -> Nat]
  BY DEF Put, DiskInv
<1>2. CASE c = files[f]
  <2>1. at' = at /\ files' = files
    BY <1>1, <1>2 DEF Put, DiskInv
  <2>2. DiskInv'
    BY <2>1 DEF DiskInv
  <2>3. WatchInv'
    <3>1. \A g, n : SnapsOf(g, n)' = SnapsOf(g, n)
      BY DEF SnapsOf
    <3> QED BY <2>1, <3>1 DEF WatchInv, IsEarliest
  <2> QED BY <1>1, <2>1, <2>2, <2>3
<1>3. CASE c # files[f]
  <2> DEFINE New(n) == IF at[n][f].first = "same" THEN [at[n] EXCEPT ![f].first = how] ELSE at[n]
  <2>1. at' = [n \in 1..Len(at) |-> New(n)]
    BY <1>3 DEF Put
  <2>2. \A n \in 1..Len(at) : New(n) \in [Files -> W]
    <3> TAKE n \in 1..Len(at)
    <3>1. at[n] \in [Files -> W] /\ at[n][f] \in W
      BY <1>0
    <3>2. [at[n] EXCEPT ![f].first = how] = [at[n] EXCEPT ![f] = [was |-> at[n][f].was, first |-> how]]
      BY <3>1
    <3>3. [was |-> at[n][f].was, first |-> how] \in W
      BY <3>1 DEF First
    <3> QED BY <3>1, <3>2, <3>3
  <2>3. at' \in Seq([Files -> W]) /\ Len(at') = Len(at)
    <3> HIDE DEF New
    <3> QED BY <1>0, <2>1, <2>2
  <2>4. \A n \in 1..Len(at), g \in Files \ {f} : at'[n][g] = at[n][g]
    BY <1>0, <2>1
  <2>5. \A n \in 1..Len(at) :
          /\ at'[n][f].was = at[n][f].was
          /\ at[n][f].first = "same" => at'[n][f].first = how
          /\ at[n][f].first # "same" => at'[n][f].first = at[n][f].first
    BY <1>0, <2>1
  <2>6. DiskInv'
    BY <1>1, <2>3 DEF DiskInv
  <2>7. \A g, n : SnapsOf(g, n)' = SnapsOf(g, n)
    BY DEF SnapsOf
  <2>8. ASSUME NEW n \in 1..Len(at), NEW g \in Files
        PROVE  /\ at'[n][g].first = "same" =>
                    /\ files'[g] = at'[n][g].was
                    /\ \A x \in SnapsOf(g, n)' : x.was = at'[n][g].was
               /\ at'[n][g].first = "saved" =>
                    \E x \in snaps' : IsEarliest(x, g, n)' /\ x.was = at'[n][g].was
    <3>1. CASE g # f
      <4>1. at'[n][g] = at[n][g] /\ files'[g] = files[g]
        BY <1>1, <2>4, <3>1 DEF DiskInv
      <4> QED BY <2>7, <4>1 DEF WatchInv, IsEarliest
    <3>2. CASE g = f /\ at[n][f].first = "same" /\ how = "saved"
      <4>1. PICK x \in snaps : IsEarliest(x, f, n)
        BY <3>2, EarliestExists
      <4>2. x.was = at[n][f].was
        BY <3>2, <4>1 DEF WatchInv, IsEarliest
      <4>3. at'[n][f].first = "saved" /\ at'[n][f].was = at[n][f].was
        BY <2>5, <3>2
      <4> QED BY <2>7, <3>2, <4>1, <4>2, <4>3 DEF IsEarliest
    <3>3. CASE g = f /\ at[n][f].first = "same" /\ how = "unsaved"
      BY <2>5, <3>3
    <3>4. CASE g = f /\ at[n][f].first # "same"
      BY <2>5, <2>7, <3>4 DEF WatchInv, IsEarliest
    <3> QED BY <3>1, <3>2, <3>3, <3>4
  <2>9. WatchInv'
    BY <2>3, <2>8 DEF WatchInv
  <2> HIDE DEF New
  <2> QED BY <1>1, <1>3, <2>3, <2>4, <2>5, <2>6, <2>9
<1> QED BY <1>2, <1>3
(* Where the tree and what the run does stay, so do their invariants.      *)
LEMMA TreeSame ==
  ASSUME IInv, UNCHANGED <<entries, tip, cursor, plan, pc, branch, torn>>
  PROVE  TreeInv' /\ NoForeignSummary'
<1>1. TreeInv'
  BY DEF IInv, TreeInv
<1>2. \A d \in Branches : On(d)' = On(d)
  BY OnSame
<1>3. NoForeignSummary'
  BY <1>2 DEF IInv, NoForeignSummary, HalfWay, On
<1> QED BY <1>1, <1>3

(* snapshot(): the newest one, or none if the tip has one.                 *)
LEMMA SnapshotKeeps ==
  ASSUME IInv, NEW f \in Files, Snapshot(f)
  PROVE  IInv'
<1>1. /\ UNCHANGED <<entries, tip, cursor, plan, pc, branch, torn, files, written, at, anchor, left, failed>>
      /\ pc = "tools" /\ armed = {} /\ armed' = {f}
  BY DEF Snapshot, treeVars, runVars, rewindVars
<1>2. TreeInv' /\ NoForeignSummary'
  BY <1>1, TreeSame
<1>3. tip[branch] = Len(entries) /\ Len(entries) > 0 /\ Len(entries) \in Nat /\ Len(at) = Len(entries)
  BY <1>1 DEF IInv, TreeInv, DiskInv, Tree, IsSeq
<1>4. anchor = 0 /\ anchor' = 0
  BY <1>1 DEF IInv, RewindInv
<1>5. RewindInv' /\ RewindRestores'
  BY <1>1, <1>3, <1>4 DEF RewindInv, RewindRestores
<1>6. CASE \E x \in snaps : x.seq = tip[branch] /\ x.file = f
  <2>1. snaps' = snaps
    BY <1>6 DEF Snapshot
  <2>2. DiskInv' /\ WatchInv'
    BY <1>1, <2>1, DiskSame DEF IInv
  <2>3. ArmedInv'
    BY <1>1, <1>3, <1>6, <2>1 DEF IInv, ArmedInv
  <2> QED BY <1>2, <1>5, <2>2, <2>3 DEF IInv
<1>7. CASE ~ \E x \in snaps : x.seq = tip[branch] /\ x.file = f
  <2> DEFINE new == [seq |-> tip[branch], file |-> f, was |-> files[f]]
  <2>1. snaps' = snaps \cup {new}
    BY <1>7 DEF Snapshot
  <2>2. new.seq = Len(entries) /\ new.file = f /\ new.was = files[f]
        /\ new \in [seq : 1..Len(entries), file : Files, was : Nat]
    BY <1>3 DEF IInv, DiskInv
  <2>3. \A x \in snaps : x.file = f => x.seq \in 1..Len(entries) /\ x.seq # Len(entries)
    BY <1>3, <1>7 DEF IInv, DiskInv
  <2> HIDE DEF new
  <2>4. DiskInv'
    <3>1. \A x, y \in snaps' : x.seq = y.seq /\ x.file = y.file => x = y
      BY <2>1, <2>2, <2>3 DEF IInv, DiskInv
    <3>2. snaps' \subseteq [seq : 1..Len(entries), file : Files, was : Nat]
      BY <2>1, <2>2 DEF IInv, DiskInv
    <3> QED BY <1>1, <3>1, <3>2 DEF IInv, DiskInv
  <2>5. ASSUME NEW n \in 1..Len(at), NEW g \in Files
        PROVE  /\ at[n][g].first = "same" =>
                    /\ files[g] = at[n][g].was
                    /\ \A x \in SnapsOf(g, n)' : x.was = at[n][g].was
               /\ at[n][g].first = "saved" =>
                    \E x \in snaps' : IsEarliest(x, g, n)' /\ x.was = at[n][g].was
    <3>1. SnapsOf(g, n) \subseteq SnapsOf(g, n)'
      BY <2>1 DEF SnapsOf
    <3>2. \A x \in SnapsOf(g, n)' : x \in SnapsOf(g, n) \/ (x = new /\ g = f)
      BY <2>1, <2>2 DEF SnapsOf
    <3>3. CASE at[n][g].first = "same"
      BY <2>2, <3>2, <3>3 DEF IInv, WatchInv
    <3>4. CASE at[n][g].first = "saved"
      <4>1. PICK x \in snaps : IsEarliest(x, g, n) /\ x.was = at[n][g].was
        BY <3>4 DEF IInv, WatchInv
      <4>2. x.file = g /\ x.seq \in 1..Len(entries)
        BY <4>1 DEF IsEarliest, SnapsOf, IInv, DiskInv
      <4>3. \A y \in SnapsOf(g, n)' : x.seq <= y.seq
        BY <1>3, <2>2, <3>2, <4>1, <4>2 DEF IsEarliest
      <4>4. IsEarliest(x, g, n)'
        BY <3>1, <4>1, <4>3 DEF IsEarliest
      <4> QED BY <2>1, <3>4, <4>1, <4>4
    <3> QED BY <3>3, <3>4
  <2>6. WatchInv'
    BY <1>1, <2>5 DEF WatchInv
  <2>7. ArmedInv'
    BY <1>1, <2>1, <2>2 DEF IInv, ArmedInv
  <2> QED BY <1>2, <1>5, <2>4, <2>6, <2>7 DEF IInv
<1> QED BY <1>6, <1>7

(* A tool's write, which was saved, and a shell command's, which was not.  *)
LEMMA WritesKeep ==
  ASSUME IInv, NEW f \in Files, WriteFile(f) \/ ShellWrite(f)
  PROVE  IInv'
<1>1. /\ UNCHANGED <<entries, tip, cursor, plan, pc, branch, torn, snaps, anchor, left, failed>>
      /\ pc = "tools" /\ armed' = {} /\ written' = written + 1
  BY DEF WriteFile, ShellWrite, treeVars, runVars, rewindVars
<1>2. TreeInv' /\ NoForeignSummary'
  BY <1>1, TreeSame
<1>3. /\ Len(entries) > 0 /\ Len(entries) \in Nat /\ Len(at) = Len(entries)
      /\ written + 1 \in Nat
  BY <1>1 DEF IInv, TreeInv, DiskInv, Tree, IsSeq
<1>4. anchor = 0 /\ anchor' = 0
  BY <1>1 DEF IInv, RewindInv
<1>5. RewindInv' /\ RewindRestores'
  BY <1>1, <1>3, <1>4 DEF RewindInv, RewindRestores
<1>6. PICK how \in {"saved", "unsaved"} :
        Put(f, written + 1, how) /\ (how = "saved" => f \in armed)
  BY DEF WriteFile, ShellWrite
<1>7. how = "saved" => \A n \in 1..Len(at) : at[n][f].first = "same" => SnapsOf(f, n) # {}
  <2> SUFFICES ASSUME how = "saved", NEW n \in 1..Len(at), at[n][f].first = "same"
               PROVE  SnapsOf(f, n) # {}
    OBVIOUS
  <2>1. PICK x \in snaps : x.seq = Len(entries) /\ x.file = f
    BY <1>6 DEF IInv, ArmedInv
  <2>2. n # Len(entries)
    BY <1>1 DEF IInv, ArmedInv
  <2>3. x.seq > n
    BY <1>3, <2>1, <2>2
  <2> QED BY <2>1, <2>3 DEF SnapsOf
<1>8. /\ DiskInv' /\ WatchInv' /\ Len(at') = Len(at)
      /\ \A n \in 1..Len(at), g \in Files : at[n][g].first = "unsaved" => at'[n][g].first = "unsaved"
  BY <1>1, <1>3, <1>6, <1>7, PutKeeps DEF IInv
<1>9. ArmedInv'
  <2>1. Len(entries) \in 1..Len(at)
    BY <1>3
  <2> QED BY <1>1, <1>8, <2>1 DEF IInv, ArmedInv
<1> QED BY <1>2, <1>5, <1>8, <1>9 DEF IInv

----------------------------------------------------------------------------
(* /rewind.                                                                *)

(* The anchor is an entry of the branch.                                   *)
LEMMA AnchorIs ==
  ASSUME TreeInv, NEW b \in Branches, Anchors(b) # {}
  PROVE  Max(Anchors(b)) \in 1..Len(entries)
<1>1. Len(entries) \in Nat /\ Tree(entries) /\ tip[b] \in -1..Len(entries)
  BY DEF TreeInv, Tree, IsSeq
<1>2. Anchors(b) \subseteq On(b)
  BY DEF Anchors, On
<1>3. Anchors(b) \in SUBSET (1..Len(entries))
  BY <1>1, <1>2, OnIs
<1> QED BY <1>1, <1>3, MaxIs

(* The tip moves to the parent of the anchor; until cursor and plan are    *)
(* gone the branch is half way.                                            *)
LEMMA RewindKeeps ==
  ASSUME IInv, NEW b \in Branches, Rewind(b)
  PROVE  IInv'
<1>1. /\ UNCHANGED <<entries, cursor, plan, files, written, snaps, armed, at, torn>>
      /\ pc = "idle" /\ branch' = b
  BY DEF Rewind, diskVars
<1>2. /\ Len(entries) \in Nat /\ Tree(entries) /\ tip \in [Branches -> -1..Len(entries)]
      /\ anchor = 0 /\ armed = {}
  BY <1>1 DEF IInv, TreeInv, RewindInv, ArmedInv, Tree, IsSeq
<1>3. DiskInv' /\ WatchInv'
  BY <1>1, DiskSame DEF IInv
<1>4. \A d \in Branches \ torn : Own(d)
  BY <1>1 DEF IInv, NoForeignSummary, Own, On, HalfWay
<1>5. CASE Anchors(b) = {}
  <2>1. pc' = "report" /\ UNCHANGED <<anchor, tip>>
    BY <1>5 DEF Rewind
  <2>2. \A d \in Branches : On(d)' = On(d)
    BY <1>1, <2>1, OnSame
  <2>3. NoForeignSummary'
    BY <1>1, <1>4, <2>2 DEF NoForeignSummary, Own, On
  <2>4. TreeInv' /\ ArmedInv' /\ RewindInv' /\ RewindRestores'
    BY <1>1, <1>2, <2>1 DEF IInv, TreeInv, ArmedInv, RewindInv, RewindRestores
  <2> QED BY <1>3, <2>3, <2>4 DEF IInv
<1>6. CASE Anchors(b) # {}
  <2> DEFINE a == Max(Anchors(b))
             t == IF entries[a].parent = 0 THEN -1 ELSE entries[a].parent
  <2>1. a \in 1..Len(entries)
    BY <1>6, AnchorIs DEF IInv
  <2>2. anchor' = a /\ pc' = "dropCursor" /\ tip' = [tip EXCEPT ![b] = t]
    BY <1>6 DEF Rewind
  <2>3. t \in -1..Len(entries)
    BY <1>2, <2>1 DEF Tree
  <2> HIDE DEF a, t
  <2>4. \A d \in Branches \ {b} : On(d)' = On(d)
    <3>1. \A d \in Branches \ {b} : tip'[d] = tip[d]
      BY <1>2, <2>2
    <3> QED BY <1>1, <3>1, OnSame
  <2>5. NoForeignSummary'
    BY <1>1, <1>4, <2>2, <2>4 DEF NoForeignSummary, Own, On, HalfWay
  <2>6. TreeInv'
    BY <1>1, <1>2, <2>2, <2>3 DEF IInv, TreeInv
  <2>7. ArmedInv' /\ RewindInv' /\ RewindRestores'
    BY <1>1, <1>2, <2>1, <2>2 DEF ArmedInv, RewindInv, RewindRestores
  <2> QED BY <1>3, <2>5, <2>6, <2>7 DEF IInv
<1> QED BY <1>5, <1>6

(* Cursor, then plan: the branch is whole again, and every file with a     *)
(* snapshot after the anchor is to be restored.                            *)
LEMMA DropsKeep ==
  ASSUME IInv, RewindCursor \/ RewindPlan
  PROVE  IInv'
<1>1. /\ UNCHANGED <<entries, tip, files, written, snaps, armed, at, torn, branch, anchor, failed>>
      /\ branch \in Branches /\ pc \in {"dropCursor", "dropPlan"} /\ pc' \in {"dropPlan", "restore"}
  BY DEF RewindCursor, RewindPlan, diskVars, rewindVars, IInv, TreeInv
<1>2. DiskInv' /\ WatchInv'
  BY <1>1, DiskSame DEF IInv
<1>3. ArmedInv' /\ RewindRestores'
  BY <1>1 DEF IInv, ArmedInv, RewindRestores
<1>4. \A d \in Branches : On(d)' = On(d)
  BY <1>1, OnSame
<1>5. \A d \in Branches \ (torn \cup {branch}) : Own(d)
  BY DEF IInv, NoForeignSummary, Own, On
<1>6. CASE RewindCursor
  <2>1. /\ pc' = "dropPlan" /\ UNCHANGED <<plan, left>>
        /\ cursor' = [cursor EXCEPT ![branch] = None]
    BY <1>6 DEF RewindCursor, CursorGoes, rewindVars
  <2>2. TreeInv'
    BY <1>1, <2>1 DEF IInv, TreeInv
  <2>3. RewindInv'
    BY <1>1, <2>1 DEF IInv, RewindInv
  <2>4. \A d \in Branches \ {branch} : cursor'[d] = cursor[d]
    BY <2>1 DEF IInv, TreeInv
  <2>5. NoForeignSummary'
    BY <1>1, <1>4, <1>5, <2>1, <2>4 DEF NoForeignSummary, Own, On, HalfWay
  <2> QED BY <1>2, <1>3, <2>2, <2>3, <2>5 DEF IInv
<1>7. CASE RewindPlan
  <2>1. /\ pc' = "restore" /\ UNCHANGED cursor /\ pc = "dropPlan"
        /\ plan' = [plan EXCEPT ![branch] = -1]
        /\ left' = {x.file : x \in After(anchor)}
    BY <1>7 DEF RewindPlan
  <2>2. TreeInv'
    BY <1>1, <2>1 DEF IInv, TreeInv
  <2>3. cursor[branch].through = 0
    BY <2>1 DEF IInv, TreeInv, None
  <2>4. /\ \A d \in Branches \ {branch} : plan'[d] = plan[d]
        /\ plan'[branch] = -1
    BY <1>1, <2>1 DEF IInv, TreeInv
  <2>5. \A d \in Branches \ torn : Own(d)'
    BY <1>1, <1>4, <1>5, <2>1, <2>3, <2>4 DEF Own
  <2>6. NoForeignSummary'
    BY <1>1, <2>5 DEF NoForeignSummary, Own, On
  <2>7. anchor \in 1..Len(entries) /\ anchor \in 1..Len(at)
    BY <2>1 DEF IInv, RewindInv, DiskInv
  <2>8. ASSUME NEW f \in Files \ left' PROVE Restored(f)
    <3>1. SnapsOf(f, anchor) = {}
      BY <2>1 DEF SnapsOf, After
    <3>2. at[anchor][f].first # "saved"
      BY <2>7, <3>1 DEF IInv, WatchInv, IsEarliest
    <3>3. at[anchor][f].first = "same" => files[f] = at[anchor][f].was
      BY <2>7 DEF IInv, WatchInv
    <3>4. at[anchor][f].first \in First
      BY <2>7 DEF IInv, DiskInv
    <3> QED BY <3>2, <3>3, <3>4 DEF Restored, First
  <2>9. RewindInv'
    BY <1>1, <2>1, <2>7, <2>8 DEF IInv, RewindInv, Restored, After
  <2> QED BY <1>2, <1>3, <2>2, <2>6, <2>9 DEF IInv
<1> QED BY <1>6, <1>7

(* restore(): a file gets the content of its earliest snapshot after the   *)
(* anchor, which is what it was there, unless its first change was not     *)
(* saved.                                                                  *)
LEMMA RestoreKeeps ==
  ASSUME IInv, NEW f \in Files, Restore(f)
  PROVE  IInv'
<1>1. /\ UNCHANGED <<entries, tip, cursor, plan, pc, branch, torn, written, snaps, armed, anchor, failed>>
      /\ pc = "restore" /\ f \in left /\ left' = left \ {f}
      /\ Put(f, Earliest(f, anchor).was, "unsaved")
  BY DEF Restore, treeVars, runVars
<1>2. TreeInv' /\ NoForeignSummary'
  BY <1>1, TreeSame
<1>3. anchor \in 1..Len(at) /\ Len(at) = Len(entries) /\ armed = {}
  BY <1>1 DEF IInv, RewindInv, DiskInv, ArmedInv
<1>4. SnapsOf(f, anchor) # {}
  BY <1>1 DEF IInv, RewindInv, SnapsOf, After
<1>5. PICK x \in snaps : IsEarliest(x, f, anchor)
  BY <1>4, EarliestExists DEF IInv
<1>6. Earliest(f, anchor) = x
  BY <1>5, EarliestIs DEF IInv
<1>7. x.was \in Nat /\ written' \in Nat
  BY <1>1, <1>5 DEF IInv, DiskInv
<1>8. /\ DiskInv' /\ WatchInv' /\ files' = [files EXCEPT ![f] = x.was] /\ Len(at') = Len(at)
      /\ \A n \in 1..Len(at), g \in Files :
           /\ at'[n][g].was = at[n][g].was
           /\ at'[n][g].first # "unsaved" => at[n][g].first # "unsaved"
  BY <1>1, <1>6, <1>7, PutKeeps DEF IInv
<1>9. ArmedInv'
  BY <1>1, <1>3 DEF ArmedInv
<1>10. at[anchor][f].first # "unsaved" => x.was = at[anchor][f].was
  <2>1. CASE at[anchor][f].first = "same"
    BY <1>3, <1>5, <2>1 DEF IInv, WatchInv, IsEarliest
  <2>2. CASE at[anchor][f].first = "saved"
    <3>1. PICK y \in snaps : IsEarliest(y, f, anchor) /\ y.was = at[anchor][f].was
      BY <1>3, <2>2 DEF IInv, WatchInv
    <3>2. y = x
      BY <1>6, <3>1, EarliestIs DEF IInv
    <3> QED BY <3>1, <3>2
  <2>3. at[anchor][f].first \in First
    BY <1>3 DEF IInv, DiskInv
  <2> QED BY <2>1, <2>2, <2>3 DEF First
<1>11. ASSUME NEW g \in Files \ (failed \cup left') PROVE Restored(g)'
  <2>1. CASE g = f
    <3>1. files'[g] = x.was
      BY <1>8, <2>1 DEF IInv, DiskInv
    <3> QED BY <1>1, <1>3, <1>8, <1>10, <2>1, <3>1 DEF Restored
  <2>2. CASE g # f
    <3>1. Restored(g)
      BY <1>1, <2>2 DEF IInv, RewindInv
    <3>2. files'[g] = files[g]
      BY <1>8, <2>2 DEF IInv, DiskInv
    <3> QED BY <1>1, <1>3, <1>8, <3>1, <3>2 DEF Restored
  <2> QED BY <2>1, <2>2
<1>12. RewindInv'
  BY <1>1, <1>11 DEF IInv, RewindInv, After
<1>13. RewindRestores'
  BY <1>1 DEF RewindRestores
<1> QED BY <1>2, <1>8, <1>9, <1>12, <1>13 DEF IInv

(* A file that fails is reported; when none is left all others are back.   *)
LEMMA RestoreEnds ==
  ASSUME IInv, RestoreDone \/ \E f \in Files : RestoreFails(f)
  PROVE  IInv'
<1>1. /\ UNCHANGED <<entries, tip, cursor, plan, branch, torn, files, written, snaps, armed, at, anchor>>
      /\ pc = "restore"
  BY DEF RestoreDone, RestoreFails, treeVars, runVars, diskVars, rewindVars
<1>2. DiskInv' /\ WatchInv'
  BY <1>1, DiskSame DEF IInv
<1>3. armed = {}
  BY <1>1 DEF IInv, ArmedInv
<1>4. ASSUME NEW f \in Files, RestoreFails(f) PROVE IInv'
  <2>1. pc' = pc /\ left' = left \ {f} /\ failed' = failed \cup {f}
    BY <1>4 DEF RestoreFails, runVars
  <2>2. TreeInv' /\ NoForeignSummary'
    BY <1>1, <2>1, TreeSame
  <2>3. ArmedInv' /\ RewindRestores'
    BY <1>1, <1>3, <2>1 DEF ArmedInv, RewindRestores
  <2>4. RewindInv'
    BY <1>1, <2>1 DEF IInv, RewindInv, Restored, After
  <2> QED BY <1>2, <2>2, <2>3, <2>4 DEF IInv
<1>5. CASE RestoreDone
  <2>1. pc' = "report" /\ left = {} /\ UNCHANGED <<left, failed>>
    BY <1>5 DEF RestoreDone, rewindVars
  <2>2. TreeInv'
    BY <1>1, <2>1 DEF IInv, TreeInv
  <2>3. NoForeignSummary'
    <3>1. \A d \in Branches : On(d)' = On(d)
      BY <1>1, OnSame
    <3>2. \A d \in Branches \ torn : Own(d)
      BY <1>1 DEF IInv, NoForeignSummary, Own, On, HalfWay
    <3> QED BY <1>1, <3>1, <3>2 DEF NoForeignSummary, Own, On
  <2>4. ArmedInv' /\ RewindInv'
    BY <1>1, <1>3, <2>1 DEF IInv, ArmedInv, RewindInv
  <2>5. RewindRestores'
    BY <1>1, <2>1 DEF IInv, RewindInv, Restored, RewindRestores
  <2> QED BY <1>2, <2>2, <2>3, <2>4, <2>5 DEF IInv
<1> QED BY <1>4, <1>5

----------------------------------------------------------------------------
(* The invariant holds at first.                                           *)
LEMMA InitInv == Init => IInv
<1> SUFFICES ASSUME Init PROVE IInv
  OBVIOUS
<1>1. Len(entries) = 0 /\ IsSeq(entries) /\ Len(at) = 0
  BY DEF Init, IsSeq
<1>2. Tree(entries)
  BY <1>1 DEF Tree
<1>3. TreeInv
  BY <1>1, <1>2, TreeAssumption DEF Init, TreeInv
<1>4. DiskInv
  <2>1. WriteBound \in Nat
    BY TreeAssumption
  <2> QED BY <1>1, <2>1 DEF Init, DiskInv
<1>5. ArmedInv /\ WatchInv /\ RewindInv /\ RewindRestores
  BY <1>1 DEF Init, ArmedInv, WatchInv, RewindInv, RewindRestores
<1>6. NoForeignSummary
  BY DEF Init, NoForeignSummary, None
<1> QED BY <1>3, <1>4, <1>5, <1>6 DEF IInv

(* Every step keeps it.                                                    *)
LEMMA NextInv == IInv /\ [Next]_vars => IInv'
<1> SUFFICES ASSUME IInv, [Next]_vars PROVE IInv'
  OBVIOUS
<1>1. CASE UNCHANGED vars
  <2>1. UNCHANGED <<entries, tip, cursor, plan, pc, branch, torn, files, written, snaps, armed, at, anchor, left, failed>>
    BY <1>1 DEF vars, treeVars, runVars, diskVars, rewindVars
  <2>2. DiskInv' /\ WatchInv'
    BY <2>1, DiskSame DEF IInv
  <2>3. TreeInv' /\ NoForeignSummary'
    BY <2>1, TreeSame
  <2>4. ArmedInv' /\ RewindInv' /\ RewindRestores'
    BY <2>1 DEF IInv, ArmedInv, RewindInv, Restored, After, RewindRestores
  <2> QED BY <2>2, <2>3, <2>4 DEF IInv
<1>2. CASE Next
  <2>1. ASSUME NEW b \in Branches, StartRun(b) \/ StartCommand(b) \/ Rewind(b) PROVE IInv'
    BY <2>1, RunRecords, QuietKeeps, RewindKeeps
  <2>2. ASSUME NEW b \in Branches, NEW n \in 0..Len(entries), CreateBranch(b, n) PROVE IInv'
    BY <2>2, ValuesKeep
  <2>3. ASSUME NEW force \in BOOLEAN, Compact(force) \/ RecordPlan(force) PROVE IInv'
    BY <2>3, ValuesKeep
  <2>4. ASSUME Command \/ Reply \/ \E k \in 1..CallBound : ReplyCalls(k) PROVE IInv'
    BY <2>4, RunRecords
  <2>5. ASSUME (\E type \in {"message", "notice"} : GoOn(type)) \/ RecordResult PROVE IInv'
    BY <2>5, RunRecords
  <2>6. ASSUME NEW f \in Files,
               Snapshot(f) \/ WriteFile(f) \/ ShellWrite(f) \/ Restore(f) \/ RestoreFails(f)
        PROVE  IInv'
    BY <2>6, SnapshotKeeps, WritesKeep, RestoreKeeps, RestoreEnds
  <2>8. ASSUME Fail PROVE IInv'
    BY <2>8, FailKeeps
  <2>7. ASSUME Finish \/ BreakOff \/ RewindCursor \/ RewindPlan \/ RestoreDone \/ Report PROVE IInv'
    BY <2>7, QuietKeeps, DropsKeep, RestoreEnds, ReportKeeps
  <2> QED BY <1>2, <2>1, <2>2, <2>3, <2>4, <2>5, <2>6, <2>7, <2>8 DEF Next
<1> QED BY <1>1, <1>2

(* The inductive invariant of the session tree.                            *)
THEOREM TreeInvariance == Spec => []IInv
BY InitInv, NextInv, PTL DEF Spec

(* For any branches, entries and bounds: after any sequence of runs,       *)
(* commands, forks and crashes but a /rewind broken off half way, a branch *)
(* carries a summary and a plan of its own chain only (recorder.py         *)
(* record_compaction(), runs.py _run_rewind()).                            *)
THEOREM SummariesAreOwn == Spec => []NoForeignSummary
<1>1. IInv => NoForeignSummary
  BY DEF IInv
<1> QED BY <1>1, TreeInvariance, PTL

(* For any files, branches and rewinds: a /rewind that reports has every   *)
(* file it could write as it was when its anchor was recorded, unless the  *)
(* first change since went past the snapshots (checkpoints.py restore()).  *)
THEOREM RewindAlwaysRestores == Spec => []RewindRestores
<1>1. IInv => RewindRestores
  BY DEF IInv
<1> QED BY <1>1, TreeInvariance, PTL
=============================================================================
