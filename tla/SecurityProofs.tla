-------------------------- MODULE SecurityProofs --------------------------
(***************************************************************************)
(* Proofs about Security, for any paths, masks, commands, callers and      *)
(* grants: what a sandboxed command finds behind the mount list, and what  *)
(* the parser's verdict on a command is worth.                             *)
(***************************************************************************)
EXTENDS Security, FiniteSetTheorems, FunctionTheorems, WellFoundedInduction,
  NaturalsInduction, TLAPS

(* The components of a path.  The provers do not know the literal to be a  *)
(* string.                                                                 *)
Names == STRING \cup {"tmp"}
Paths == Seq(Names)

Kinds == {"ro", "rw", "private", "empty"}

Mounted == [at : Paths, kind : Kinds]

(* A grant is for reading or for both.                                     *)
GrantsOk(grants) == \A g \in grants : g.access \in {"ro", "rw"}

(* The mounts of a sequence that reach a path.                             *)
Reaching(ms, p) == {i \in 1..Len(ms) : Covers(ms[i].at, p)}

----------------------------------------------------------------------------
(* Paths.                                                                  *)

(* Every path the model names is one.                                      *)
LEMMA PathsAre ==
  {Home, AvidHome, Store} \cup MaskDirs \cup MaskFiles \cup Existing \subseteq Paths
<1>1. Seq(STRING) \subseteq Paths
  BY DEF Paths, Names
<1> QED BY <1>1, PathsAssumption

(* A path covers another when it agrees with it as far as it goes.         *)
LEMMA CoversIs ==
  ASSUME NEW a \in Paths, NEW p \in Paths
  PROVE  Covers(a, p) <=> Len(a) <= Len(p) /\ \A i \in 1..Len(a) : a[i] = p[i]
<1>1. CASE Len(a) <= Len(p)
  <2>1. /\ SubSeq(a, 1, Len(a)) \in Seq(Names) /\ Len(SubSeq(a, 1, Len(a))) = Len(a)
        /\ \A i \in 1..Len(a) : SubSeq(a, 1, Len(a))[i] = a[i]
    BY DEF Paths
  <2>2. /\ SubSeq(p, 1, Len(a)) \in Seq(Names) /\ Len(SubSeq(p, 1, Len(a))) = Len(a)
        /\ \A i \in 1..Len(a) : SubSeq(p, 1, Len(a))[i] = p[i]
    BY <1>1 DEF Paths
  <2> QED BY <1>1, <2>1, <2>2 DEF Covers, IsPrefix, Paths
<1>2. CASE ~(Len(a) <= Len(p))
  BY <1>2 DEF Covers, IsPrefix, Paths
<1> QED BY <1>1, <1>2

(* Two paths that cover a third lie on one line.                           *)
LEMMA CoversChain ==
  ASSUME NEW a \in Paths, NEW b \in Paths, NEW p \in Paths, Covers(a, p), Covers(b, p)
  PROVE  Covers(a, b) \/ Covers(b, a)
BY CoversIs DEF Paths

(* Covering is transitive and antisymmetric.                               *)
LEMMA CoversTransitive ==
  ASSUME NEW a \in Paths, NEW b \in Paths, NEW p \in Paths, Covers(a, b), Covers(b, p)
  PROVE  Covers(a, p)
BY CoversIs DEF Paths

(* Paths that cover each other are one path.                               *)
LEMMA CoversBoth ==
  ASSUME NEW a \in Paths, NEW b \in Paths, Covers(a, b), Covers(b, a)
  PROVE  a = b
<1>1. Len(a) = Len(b) /\ \A i \in 1..Len(a) : a[i] = b[i]
  BY CoversIs DEF Paths
<1> QED BY <1>1 DEF Paths

(* The root of the file system covers every path.                          *)
LEMMA RootCovers ==
  ASSUME NEW p \in Paths
  PROVE  Covers(<<>>, p)
<1> DEFINE e == <<>>
<1>1. e \in Paths /\ Len(e) = 0
  BY DEF Paths
<1>2. \A i \in 1..0 : e[i] = p[i]
  OBVIOUS
<1>3. Len(p) \in Nat
  BY DEF Paths
<1> HIDE DEF e
<1>4. Covers(e, p)
  BY <1>1, <1>2, <1>3, CoversIs
<1> QED BY <1>4 DEF e

----------------------------------------------------------------------------
(* What a list of mounts shows.                                            *)

(* The kinds of mounts.                                                    *)
LEMMA KindsAre == "ro" \in Kinds /\ "rw" \in Kinds /\ "private" \in Kinds /\ "empty" \in Kinds
BY DEF Kinds

(* A set of numbers that is not empty has a least element.                 *)
LEMMA LeastNumber ==
  ASSUME NEW S \in SUBSET Nat, S # {}
  PROVE  \E x \in S : \A y \in S : x <= y
<1> DEFINE R == {ss \in Nat \X Nat : ss[1] < ss[2]}
<1>1. IsWellFoundedOn(R, Nat)
  BY NatLessThanWellFounded DEF OpToRel
<1>2. PICK x \in S : \A y \in Nat : <<y, x>> \in R => y \notin S
  <2> HIDE DEF R
  <2> QED BY <1>1, WFMin
<1>3. \A y \in S : ~(y < x)
  BY <1>2
<1> QED BY <1>3

(* A set of positions has a greatest one, which is what Max is.            *)
LEMMA MaxIs ==
  ASSUME NEW n \in Nat, NEW S \in SUBSET (1..n), S # {}
  PROVE  Max(S) \in S /\ \A y \in S : y <= Max(S)
<1> DEFINE T == {k \in 0..n : n - k \in S}
<1>1. T \in SUBSET Nat /\ T # {}
  <2>1. PICK x \in S : TRUE
    OBVIOUS
  <2>2. n - x \in 0..n /\ n - (n - x) = x
    OBVIOUS
  <2>3. n - x \in T
    BY <2>2
  <2>4. T \subseteq Nat
    OBVIOUS
  <2> HIDE DEF T
  <2> QED BY <2>3, <2>4
<1>2. PICK k \in T : \A j \in T : k <= j
  <2> HIDE DEF T
  <2> QED BY <1>1, LeastNumber
<1>3. n - k \in S
  OBVIOUS
<1>4. \A y \in S : n - y \in T
  OBVIOUS
<1>5. \A y \in S : n - k >= y
  BY <1>2, <1>4
<1> QED BY <1>3, <1>5 DEF Max

(* What a process sees is the kind of the last mount that reaches the path.*)
LEMMA SeesIs ==
  ASSUME NEW ms \in Seq(Mounted), NEW p, NEW i \in Reaching(ms, p),
         \A j \in Reaching(ms, p) : j <= i
  PROVE  Sees(ms, p) = ms[i].kind
<1>1. Len(ms) \in Nat /\ Reaching(ms, p) \in SUBSET (1..Len(ms))
  BY DEF Reaching
<1>2. Max(Reaching(ms, p)) \in Reaching(ms, p) /\ i <= Max(Reaching(ms, p))
  BY <1>1, MaxIs
<1>3. Max(Reaching(ms, p)) = i
  BY <1>1, <1>2
<1> QED BY <1>3 DEF Sees, Reaching

(* Among the mounts that reach a path one is the last.                     *)
LEMMA LastReaching ==
  ASSUME NEW ms \in Seq(Mounted), NEW p, Reaching(ms, p) # {}
  PROVE  \E i \in Reaching(ms, p) : \A j \in Reaching(ms, p) : j <= i
<1>1. Len(ms) \in Nat /\ Reaching(ms, p) \in SUBSET (1..Len(ms))
  BY DEF Reaching
<1> QED BY <1>1, MaxIs

(* Of two lists the later one decides, where it reaches the path at all.   *)
LEMMA LaterDecides ==
  ASSUME NEW a \in Seq(Mounted), NEW b \in Seq(Mounted), NEW p, Reaching(b, p) # {}
  PROVE  Sees(a \o b, p) = Sees(b, p) /\ Reaching(a \o b, p) # {}
<1> DEFINE ab == a \o b
<1>1. /\ ab \in Seq(Mounted) /\ Len(ab) = Len(a) + Len(b)
      /\ \A i \in 1..Len(b) : ab[Len(a) + i] = b[i]
      /\ Len(a) \in Nat /\ Len(b) \in Nat
  OBVIOUS
<1>2. PICK i \in Reaching(b, p) : \A j \in Reaching(b, p) : j <= i
  BY LastReaching
<1>3. i \in 1..Len(b) /\ Covers(b[i].at, p)
  BY DEF Reaching
<1> HIDE DEF ab
<1>4. Len(a) + i \in Reaching(ab, p)
  BY <1>1, <1>3 DEF Reaching
<1>5. ASSUME NEW j \in Reaching(ab, p)
      PROVE  j <= Len(a) + i
  <2>1. CASE j <= Len(a)
    BY <2>1, <1>1, <1>3 DEF Reaching
  <2>2. CASE j > Len(a)
    <3>1. j \in 1..(Len(a) + Len(b)) /\ Covers(ab[j].at, p)
      BY <1>1 DEF Reaching
    <3>2. j - Len(a) \in 1..Len(b) /\ Len(a) + (j - Len(a)) = j
      BY <1>1, <2>2, <3>1
    <3>3. j - Len(a) \in Reaching(b, p)
      BY <1>1, <3>1, <3>2 DEF Reaching
    <3> QED BY <1>1, <1>2, <1>3, <3>1, <3>3
  <2> QED BY <1>1, <2>1, <2>2 DEF Reaching
<1>6. Sees(ab, p) = ab[Len(a) + i].kind
  BY <1>1, <1>4, <1>5, SeesIs
<1>7. Sees(b, p) = b[i].kind
  BY <1>2, SeesIs
<1> QED BY <1>1, <1>3, <1>4, <1>6, <1>7 DEF ab

(* A later list that does not reach the path changes nothing there.        *)
LEMMA EarlierStays ==
  ASSUME NEW a \in Seq(Mounted), NEW b \in Seq(Mounted), NEW p,
         Reaching(a, p) # {}, Reaching(b, p) = {}
  PROVE  Sees(a \o b, p) = Sees(a, p) /\ Reaching(a \o b, p) # {}
<1> DEFINE ab == a \o b
<1>1. /\ ab \in Seq(Mounted) /\ Len(ab) = Len(a) + Len(b)
      /\ \A i \in 1..Len(a) : ab[i] = a[i]
      /\ \A i \in 1..Len(b) : ab[Len(a) + i] = b[i]
      /\ Len(a) \in Nat /\ Len(b) \in Nat
  OBVIOUS
<1>2. PICK i \in Reaching(a, p) : \A j \in Reaching(a, p) : j <= i
  BY LastReaching
<1>3. i \in 1..Len(a) /\ Covers(a[i].at, p)
  BY DEF Reaching
<1> HIDE DEF ab
<1>4. i \in Reaching(ab, p)
  BY <1>1, <1>3 DEF Reaching
<1>5. ASSUME NEW j \in Reaching(ab, p)
      PROVE  j <= i
  <2>1. CASE j <= Len(a)
    <3>1. j \in Reaching(a, p)
      BY <2>1, <1>1 DEF Reaching
    <3> QED BY <1>2, <3>1
  <2>2. CASE j > Len(a)
    <3>1. j \in 1..(Len(a) + Len(b)) /\ Covers(ab[j].at, p)
      BY <1>1 DEF Reaching
    <3>2. j - Len(a) \in 1..Len(b) /\ Len(a) + (j - Len(a)) = j
      BY <1>1, <2>2, <3>1
    <3>3. j - Len(a) \in Reaching(b, p)
      BY <1>1, <3>1, <3>2 DEF Reaching
    <3> QED BY <3>3
  <2> QED BY <1>1, <2>1, <2>2 DEF Reaching
<1>6. Sees(ab, p) = ab[i].kind
  BY <1>1, <1>4, <1>5, SeesIs
<1>7. Sees(a, p) = a[i].kind
  BY <1>2, SeesIs
<1> QED BY <1>1, <1>3, <1>4, <1>6, <1>7 DEF ab

(* What is seen is the kind of a mount that reaches the path.              *)
LEMMA SeenIsMounted ==
  ASSUME NEW ms \in Seq(Mounted), NEW p, Reaching(ms, p) # {}
  PROVE  \E i \in Reaching(ms, p) : Sees(ms, p) = ms[i].kind
<1>1. PICK i \in Reaching(ms, p) : \A j \in Reaching(ms, p) : j <= i
  BY LastReaching
<1> QED BY <1>1, SeesIs

----------------------------------------------------------------------------
(* The groups of the mount list.                                           *)

(* SetToSeq lists the elements of a finite set and nothing else.           *)
LEMMA SetToSeqIs ==
  ASSUME NEW S, IsFiniteSet(S)
  PROVE  /\ SetToSeq(S) \in Seq(S)
         /\ \A x \in S : \E i \in 1..Len(SetToSeq(S)) : SetToSeq(S)[i] = x
<1> DEFINE n == Cardinality(S)
<1>1. n \in Nat /\ ExistsBijection(1..n, S)
  BY FS_CardinalityType
<1>2. \E g \in [1..n -> S] : IsInjective(g)
  <2>1. PICK g \in Bijection(1..n, S) : TRUE
    BY <1>1 DEF ExistsBijection
  <2> QED BY <2>1 DEF Bijection, Injection
<1> DEFINE f == SetToSeq(S)
<1>3. f \in [1..n -> S] /\ IsInjective(f)
  BY <1>2 DEF SetToSeq
<1> HIDE DEF f
<1>4. f \in Injection(1..n, S)
  BY <1>3 DEF Injection, IsInjective
<1>5. IsFiniteSet(1..n) /\ Cardinality(1..n) = n
  BY <1>1, FS_Interval
<1>6. f \in Surjection(1..n, S)
  BY <1>4, <1>5, FS_Injection
<1>7. \A x \in S : \E i \in 1..n : f[i] = x
  BY <1>6 DEF Surjection
<1>8. f \in Seq(S) /\ Len(f) = n
  BY <1>1, <1>3
<1> QED BY <1>7, <1>8 DEF f

(* The mounts of existing paths are finitely many.                         *)
LEMMA FiniteMounts ==
  ASSUME NEW T \in SUBSET [at : Existing, kind : Kinds]
  PROVE  IsFiniteSet(T)
<1> DEFINE D == Existing \X Kinds
<1> DEFINE f == [x \in D |-> [at |-> x[1], kind |-> x[2]]]
<1>1. IsFiniteSet(Kinds)
  <2>1. IsFiniteSet({"ro"} \cup {"rw"})
    BY FS_Singleton, FS_AddElement
  <2>2. IsFiniteSet(({"ro"} \cup {"rw"}) \cup {"private"})
    BY <2>1, FS_AddElement
  <2>3. IsFiniteSet((({"ro"} \cup {"rw"}) \cup {"private"}) \cup {"empty"})
    BY <2>2, FS_AddElement
  <2>4. Kinds = (({"ro"} \cup {"rw"}) \cup {"private"}) \cup {"empty"}
    BY DEF Kinds
  <2> QED BY <2>3, <2>4
<1>2. IsFiniteSet(Existing)
  BY PathsAssumption
<1>3. IsFiniteSet(D)
  BY <1>1, <1>2, FS_Product
<1>4. f \in Surjection(D, [at : Existing, kind : Kinds])
  <2>1. f \in [D -> [at : Existing, kind : Kinds]]
    OBVIOUS
  <2>2. ASSUME NEW r \in [at : Existing, kind : Kinds]
        PROVE  \E x \in D : f[x] = r
    <3>1. <<r.at, r.kind>> \in D
      OBVIOUS
    <3>2. f[<<r.at, r.kind>>] = r
      BY <3>1
    <3> QED BY <3>1, <3>2
  <2> QED BY <2>1, <2>2 DEF Surjection
<1>5. IsFiniteSet([at : Existing, kind : Kinds])
  <2> HIDE DEF f, D
  <2> QED BY <1>3, <1>4, FS_Surjection
<1> QED BY <1>5, FS_Subset

(* A group of mounts has the paths it was given, those that exist, and one *)
(* kind.                                                                   *)
LEMMA MountIs ==
  ASSUME NEW P, NEW kind \in Kinds
  PROVE  /\ Mount(P, kind) \in Seq(Mounted)
         /\ \A i \in 1..Len(Mount(P, kind)) :
              Mount(P, kind)[i].at \in P \cap Existing /\ Mount(P, kind)[i].kind = kind
         /\ \A q \in P \cap Existing :
              \E i \in 1..Len(Mount(P, kind)) : Mount(P, kind)[i].at = q
<1> DEFINE S == {[at |-> p, kind |-> kind] : p \in P \cap Existing}
<1> DEFINE f == SetToSeq(S)
<1>1. IsFiniteSet(S)
  <2>1. S \in SUBSET [at : Existing, kind : Kinds]
    OBVIOUS
  <2> HIDE DEF S
  <2> QED BY <2>1, FiniteMounts
<1>2. f \in Seq(S) /\ \A x \in S : \E i \in 1..Len(f) : f[i] = x
  <2> HIDE DEF S
  <2> QED BY <1>1, SetToSeqIs
<1>3. S \subseteq Mounted
  BY PathsAre DEF Mounted
<1>4. \A x \in S : x.at \in P \cap Existing /\ x.kind = kind
  OBVIOUS
<1>5. \A q \in P \cap Existing : \E x \in S : x.at = q
  <2> TAKE q \in P \cap Existing
  <2>1. [at |-> q, kind |-> kind] \in S
    OBVIOUS
  <2> QED BY <2>1
<1> HIDE DEF S
<1>6. f \in Seq(Mounted) /\ \A i \in 1..Len(f) : f[i] \in S
  <2> HIDE DEF f
  <2> QED BY <1>2, <1>3
<1>7. Mount(P, kind) = f
  BY DEF Mount, S
<1> HIDE DEF f
<1>8. \A q \in P \cap Existing : \E i \in 1..Len(f) : f[i].at = q
  BY <1>2, <1>5
<1> QED BY <1>4, <1>6, <1>7, <1>8

(* Where a group reaches a path, its kind is what it shows there.          *)
LEMMA MountShows ==
  ASSUME NEW P, NEW kind \in Kinds, NEW p,
         Reaching(Mount(P, kind), p) # {}
  PROVE  Sees(Mount(P, kind), p) = kind
<1>1. Mount(P, kind) \in Seq(Mounted)
  BY MountIs
<1>2. PICK i \in Reaching(Mount(P, kind), p) : Sees(Mount(P, kind), p) = Mount(P, kind)[i].kind
  BY <1>1, SeenIsMounted
<1>3. i \in 1..Len(Mount(P, kind))
  BY DEF Reaching
<1> QED BY <1>2, <1>3, MountIs

(* A group reaches what one of its existing paths covers.                  *)
LEMMA MountReaches ==
  ASSUME NEW P, NEW kind \in Kinds, NEW p,
         NEW q \in P \cap Existing, Covers(q, p)
  PROVE  Reaching(Mount(P, kind), p) # {}
<1>1. \A x \in P \cap Existing :
        \E i \in 1..Len(Mount(P, kind)) : Mount(P, kind)[i].at = x
  BY MountIs
<1>2. PICK i \in 1..Len(Mount(P, kind)) : Mount(P, kind)[i].at = q
  BY <1>1
<1> QED BY <1>2 DEF Reaching

(* A group at the end of a list decides where it reaches, and is as if it  *)
(* were not there elsewhere.                                               *)
LEMMA MountAfter ==
  ASSUME NEW a \in Seq(Mounted), NEW P, NEW kind \in Kinds, NEW p
  PROVE  /\ Reaching(Mount(P, kind), p) # {} => Sees(a \o Mount(P, kind), p) = kind
         /\ Reaching(Mount(P, kind), p) = {} /\ Reaching(a, p) # {} =>
              Sees(a \o Mount(P, kind), p) = Sees(a, p)
<1>1. Mount(P, kind) \in Seq(Mounted)
  BY MountIs
<1>2. ASSUME Reaching(Mount(P, kind), p) # {}
      PROVE  Sees(a \o Mount(P, kind), p) = kind
  <2>1. Sees(Mount(P, kind), p) = kind
    BY <1>2, MountShows
  <2> QED BY <1>1, <1>2, <2>1, LaterDecides
<1>3. ASSUME Reaching(Mount(P, kind), p) = {}, Reaching(a, p) # {}
      PROVE  Sees(a \o Mount(P, kind), p) = Sees(a, p)
  BY <1>1, <1>3, EarlierStays
<1> QED BY <1>2, <1>3

----------------------------------------------------------------------------
(* The mount list of a command.                                            *)

Base == <<[at |-> <<>>, kind |-> "ro"], [at |-> <<"tmp">>, kind |-> "private"]>>
Inside(spec) == {m \in spec.masks : Covers(spec.root, m) /\ m # spec.root}
Granted(spec, grants) ==
  SetToSeq({[at |-> g.path, kind |-> g.access] : g \in AllowedGrants(spec, grants)})
Workspace(spec) == <<[at |-> spec.root, kind |-> IF spec.readOnly THEN "ro" ELSE "rw"]>>
OpenFiles(spec) == {f \in spec.files : spec.empty /\ ~Covers(f, spec.root)}

(* The list up to the grants, the masks, the files, the workspace.         *)
UpTo1(spec, grants) == Base \o Granted(spec, grants)
UpTo2(spec, grants) == UpTo1(spec, grants) \o Mount(spec.masks \ Inside(spec), "private")
UpTo3(spec, grants) == UpTo2(spec, grants) \o Mount(OpenFiles(spec), "empty")
UpTo4(spec, grants) == UpTo3(spec, grants) \o Workspace(spec)

BoxOk(spec) == spec.root \in Existing /\ spec.masks \subseteq Paths /\ spec.files \subseteq MaskFiles

(* The parts make the whole.                                               *)
LEMMA MountsIs ==
  ASSUME NEW spec, NEW grants
  PROVE  Mounts(spec, grants) = UpTo4(spec, grants) \o Mount(Inside(spec), "private")
BY DEF Mounts, UpTo4, UpTo3, UpTo2, UpTo1, Base, Inside, Granted, Workspace, OpenFiles

(* A granted mount comes from a grant that the sandbox allows.             *)
LEMMA GrantedIs ==
  ASSUME NEW spec, NEW grants, GrantsOk(grants)
  PROVE  /\ Granted(spec, grants) \in Seq(Mounted)
         /\ \A i \in 1..Len(Granted(spec, grants)) :
              \E g \in AllowedGrants(spec, grants) :
                Granted(spec, grants)[i] = [at |-> g.path, kind |-> g.access]
<1> DEFINE S == {[at |-> g.path, kind |-> g.access] : g \in AllowedGrants(spec, grants)}
<1>1. S \in SUBSET [at : Existing, kind : Kinds]
  BY DEF AllowedGrants, GrantsOk, Kinds
<1>2. S \subseteq Mounted
  BY <1>1, PathsAre DEF Mounted
<1>3. \A x \in S : \E g \in AllowedGrants(spec, grants) : x = [at |-> g.path, kind |-> g.access]
  OBVIOUS
<1>4. Granted(spec, grants) = SetToSeq(S)
  BY DEF Granted
<1> HIDE DEF S
<1>5. SetToSeq(S) \in Seq(S)
  BY <1>1, FiniteMounts, SetToSeqIs
<1> DEFINE f == SetToSeq(S)
<1>6. f \in Seq(Mounted) /\ \A i \in 1..Len(f) : f[i] \in S
  <2> HIDE DEF f
  <2> QED BY <1>2, <1>5 DEF f
<1> QED BY <1>3, <1>4, <1>6

(* Every part is a list of mounts, and the first of them reaches all.      *)
LEMMA PartsAre ==
  ASSUME NEW spec, NEW grants, BoxOk(spec), GrantsOk(grants),
         NEW p \in Paths
  PROVE  /\ Base \in Seq(Mounted) /\ Reaching(Base, p) # {}
         /\ Workspace(spec) \in Seq(Mounted)
         /\ UpTo1(spec, grants) \in Seq(Mounted) /\ Reaching(UpTo1(spec, grants), p) # {}
         /\ UpTo2(spec, grants) \in Seq(Mounted) /\ Reaching(UpTo2(spec, grants), p) # {}
         /\ UpTo3(spec, grants) \in Seq(Mounted) /\ Reaching(UpTo3(spec, grants), p) # {}
         /\ UpTo4(spec, grants) \in Seq(Mounted) /\ Reaching(UpTo4(spec, grants), p) # {}
<1>1. Base \in Seq(Mounted) /\ Reaching(Base, p) # {}
  <2>1. <<>> \in Seq(Names)
    OBVIOUS
  <2>a. <<"tmp">> \in Seq(Names)
    <3>1. "tmp" \in Names
      BY DEF Names
    <3>2. \A x \in Names : <<x>> \in Seq(Names)
      OBVIOUS
    <3> QED BY <3>1, <3>2
  <2>2. [at |-> <<>>, kind |-> "ro"] \in Mounted /\ [at |-> <<"tmp">>, kind |-> "private"] \in Mounted
    BY <2>1, <2>a DEF Mounted, Paths, Kinds
  <2>3. Base \in Seq(Mounted) /\ Len(Base) = 2 /\ Base[1].at = <<>>
    BY <2>2 DEF Base
  <2>4. 1 \in Reaching(Base, p)
    BY <2>3, RootCovers DEF Reaching
  <2> QED BY <2>3, <2>4
<1>2. Workspace(spec) \in Seq(Mounted)
  <2>1. spec.root \in Paths
    BY PathsAre DEF BoxOk
  <2>2. [at |-> spec.root, kind |-> IF spec.readOnly THEN "ro" ELSE "rw"] \in Mounted
    BY <2>1 DEF Mounted, Kinds
  <2> QED BY <2>2 DEF Workspace
<1>3. ASSUME NEW a \in Seq(Mounted), NEW b \in Seq(Mounted), Reaching(a, p) # {}
      PROVE  a \o b \in Seq(Mounted) /\ Reaching(a \o b, p) # {}
  BY <1>3, LaterDecides, EarlierStays
<1>4. UpTo1(spec, grants) \in Seq(Mounted) /\ Reaching(UpTo1(spec, grants), p) # {}
  BY <1>1, <1>3, GrantedIs DEF UpTo1
<1>5. UpTo2(spec, grants) \in Seq(Mounted) /\ Reaching(UpTo2(spec, grants), p) # {}
  BY <1>3, <1>4, MountIs, KindsAre DEF UpTo2
<1>6. UpTo3(spec, grants) \in Seq(Mounted) /\ Reaching(UpTo3(spec, grants), p) # {}
  BY <1>3, <1>5, MountIs, KindsAre DEF UpTo3
<1>7. UpTo4(spec, grants) \in Seq(Mounted) /\ Reaching(UpTo4(spec, grants), p) # {}
  BY <1>2, <1>3, <1>6 DEF UpTo4
<1> QED BY <1>1, <1>2, <1>4, <1>5, <1>6, <1>7

(* The workspace mount reaches what lies in the workspace.                 *)
LEMMA WorkspaceReaches ==
  ASSUME NEW spec, NEW p
  PROVE  /\ Reaching(Workspace(spec), p) # {} <=> Covers(spec.root, p)
         /\ \A i \in Reaching(Workspace(spec), p) :
              Workspace(spec)[i].kind = IF spec.readOnly THEN "ro" ELSE "rw"
<1>1. /\ Len(Workspace(spec)) = 1
      /\ Workspace(spec)[1] = [at |-> spec.root, kind |-> IF spec.readOnly THEN "ro" ELSE "rw"]
  BY DEF Workspace
<1>2. 1..Len(Workspace(spec)) = {1}
  BY <1>1
<1> QED BY <1>1, <1>2 DEF Reaching

(* The groups of mounts, one after the other.                              *)
LEMMA GroupsShow ==
  ASSUME NEW spec, NEW grants, BoxOk(spec), GrantsOk(grants), NEW p \in Paths
  PROVE  /\ IF Reaching(Mount(Inside(spec), "private"), p) # {}
            THEN Sees(Mounts(spec, grants), p) = "private"
            ELSE Sees(Mounts(spec, grants), p) = Sees(UpTo4(spec, grants), p)
         /\ IF Reaching(Mount(OpenFiles(spec), "empty"), p) # {}
            THEN Sees(UpTo3(spec, grants), p) = "empty"
            ELSE Sees(UpTo3(spec, grants), p) = Sees(UpTo2(spec, grants), p)
         /\ IF Reaching(Mount(spec.masks \ Inside(spec), "private"), p) # {}
            THEN Sees(UpTo2(spec, grants), p) = "private"
            ELSE Sees(UpTo2(spec, grants), p) = Sees(UpTo1(spec, grants), p)
<1>1. ASSUME NEW a \in Seq(Mounted), Reaching(a, p) # {}, NEW P, NEW kind \in Kinds
      PROVE  IF Reaching(Mount(P, kind), p) # {}
             THEN Sees(a \o Mount(P, kind), p) = kind
             ELSE Sees(a \o Mount(P, kind), p) = Sees(a, p)
  BY <1>1, MountAfter
<1>2. IF Reaching(Mount(Inside(spec), "private"), p) # {}
      THEN Sees(Mounts(spec, grants), p) = "private"
      ELSE Sees(Mounts(spec, grants), p) = Sees(UpTo4(spec, grants), p)
  <2>1. UpTo4(spec, grants) \in Seq(Mounted) /\ Reaching(UpTo4(spec, grants), p) # {}
    BY PartsAre
  <2> QED BY <1>1, <2>1, KindsAre, MountsIs
<1>3. IF Reaching(Mount(OpenFiles(spec), "empty"), p) # {}
      THEN Sees(UpTo3(spec, grants), p) = "empty"
      ELSE Sees(UpTo3(spec, grants), p) = Sees(UpTo2(spec, grants), p)
  <2>1. UpTo2(spec, grants) \in Seq(Mounted) /\ Reaching(UpTo2(spec, grants), p) # {}
    BY PartsAre
  <2> QED BY <1>1, <2>1, KindsAre DEF UpTo3
<1>4. IF Reaching(Mount(spec.masks \ Inside(spec), "private"), p) # {}
      THEN Sees(UpTo2(spec, grants), p) = "private"
      ELSE Sees(UpTo2(spec, grants), p) = Sees(UpTo1(spec, grants), p)
  <2>1. UpTo1(spec, grants) \in Seq(Mounted) /\ Reaching(UpTo1(spec, grants), p) # {}
    BY PartsAre
  <2> DEFINE P == spec.masks \ Inside(spec)
  <2>2. UpTo2(spec, grants) = UpTo1(spec, grants) \o Mount(P, "private")
    BY DEF UpTo2
  <2> HIDE DEF P
  <2>3. IF Reaching(Mount(P, "private"), p) # {}
        THEN Sees(UpTo2(spec, grants), p) = "private"
        ELSE Sees(UpTo2(spec, grants), p) = Sees(UpTo1(spec, grants), p)
    BY <1>1, <2>1, <2>2, KindsAre
  <2> QED BY <2>3 DEF P
<1> QED BY <1>2, <1>3, <1>4

(* What the masks inside the workspace leave alone, and the workspace too, *)
(* is as the masks and files left it.                                      *)
LEMMA OutsideWorkspace ==
  ASSUME NEW spec, NEW grants, BoxOk(spec), GrantsOk(grants),
         NEW p \in Paths, ~Covers(spec.root, p)
  PROVE  \/ Sees(Mounts(spec, grants), p) = "private"
         \/ Sees(Mounts(spec, grants), p) = Sees(UpTo3(spec, grants), p)
<1>1. \/ Sees(Mounts(spec, grants), p) = "private"
      \/ Sees(Mounts(spec, grants), p) = Sees(UpTo4(spec, grants), p)
  BY GroupsShow
<1>2. Sees(UpTo4(spec, grants), p) = Sees(UpTo3(spec, grants), p)
  BY WorkspaceReaches, EarlierStays, PartsAre DEF UpTo4
<1> QED BY <1>1, <1>2

(* Below a mask directory a command finds nothing of the host, but for the *)
(* workspace when the mask lies around it.                                 *)
LEMMA MaskedIsHidden ==
  ASSUME NEW spec, NEW grants, BoxOk(spec), GrantsOk(grants),
         NEW m \in spec.masks \cap Existing, NEW p \in Existing, Covers(m, p),
         ~(Covers(m, spec.root) /\ Covers(spec.root, p))
  PROVE  Sees(Mounts(spec, grants), p) \in Hidden
<1>1. p \in Paths /\ m \in Paths /\ spec.root \in Paths
  BY PathsAre DEF BoxOk
<1>2. CASE Reaching(Mount(Inside(spec), "private"), p) # {}
  <2>1. Sees(Mounts(spec, grants), p) = "private"
    BY <1>1, <1>2, GroupsShow
  <2> QED BY <2>1 DEF Hidden
<1>3. CASE Reaching(Mount(Inside(spec), "private"), p) = {}
  <2>1. m \notin Inside(spec)
    BY <1>3, MountReaches, KindsAre
  <2>2. ~Covers(spec.root, p)
    <3>1. ASSUME Covers(spec.root, p) PROVE FALSE
      <4>1. ~Covers(m, spec.root)
        BY <3>1
      <4>2. Covers(spec.root, m)
        BY <1>1, <3>1, <4>1, CoversChain
      <4>3. m = spec.root
        BY <2>1, <4>2 DEF Inside
      <4> QED BY <4>1, <4>2, <4>3
    <3> QED BY <3>1
  <2>3. Sees(UpTo2(spec, grants), p) = "private"
    <3>1. m \in (spec.masks \ Inside(spec)) \cap Existing
      BY <2>1
    <3>2. Reaching(Mount(spec.masks \ Inside(spec), "private"), p) # {}
      BY <3>1, MountReaches, KindsAre
    <3> QED BY <1>1, <3>2, GroupsShow DEF UpTo2
  <2>4. Sees(UpTo3(spec, grants), p) \in Hidden
    <3>1. \/ Sees(UpTo3(spec, grants), p) = "empty"
          \/ Sees(UpTo3(spec, grants), p) = Sees(UpTo2(spec, grants), p)
      BY <1>1, GroupsShow DEF UpTo3
    <3> QED BY <2>3, <3>1 DEF Hidden
  <2> QED BY <1>1, <2>2, <2>4, OutsideWorkspace DEF Hidden
<1> QED BY <1>2, <1>3

(* A mask file outside the workspace is not there either, if there is an   *)
(* empty file to cover it.                                                 *)
LEMMA FileIsHidden ==
  ASSUME NEW spec, NEW grants, BoxOk(spec), GrantsOk(grants),
         NEW f \in spec.files \cap Existing, spec.empty, ~Covers(spec.root, f)
  PROVE  Sees(Mounts(spec, grants), f) \in Hidden
<1>1. f \in Paths /\ spec.root \in Paths /\ f \in MaskFiles
  BY PathsAre DEF BoxOk
<1>2. Covers(f, f)
  BY <1>1, CoversIs DEF Paths
<1>3. ~Covers(f, spec.root)
  <2>1. ASSUME Covers(f, spec.root) PROVE FALSE
    <3>1. spec.root = f
      BY <1>1, <2>1, PathsAssumption DEF BoxOk
    <3> QED BY <1>2, <3>1
  <2> QED BY <2>1
<1>4. f \in OpenFiles(spec) \cap Existing
  BY <1>3 DEF OpenFiles
<1>5. Reaching(Mount(OpenFiles(spec), "empty"), f) # {}
  BY <1>2, <1>4, MountReaches, KindsAre
<1>6. Sees(UpTo3(spec, grants), f) = "empty"
  BY <1>1, <1>5, GroupsShow DEF UpTo3
<1> QED BY <1>1, <1>6, OutsideWorkspace DEF Hidden

(* What a command may write is the workspace of a run that is not          *)
(* read-only, or lies below a grant the sandbox allows.                    *)
LEMMA WritableIsGranted ==
  ASSUME NEW spec, NEW grants, BoxOk(spec), GrantsOk(grants),
         NEW p \in Paths, Sees(Mounts(spec, grants), p) = "rw"
  PROVE  \/ Covers(spec.root, p) /\ ~spec.readOnly
         \/ /\ ~Covers(spec.root, p)
            /\ \E g \in AllowedGrants(spec, grants) : g.access = "rw" /\ Covers(g.path, p)
<1>1. CASE Covers(spec.root, p)
  <2>1. Sees(UpTo4(spec, grants), p) = "rw"
    BY GroupsShow
  <2>2. Reaching(Workspace(spec), p) # {}
    BY <1>1, WorkspaceReaches
  <2>3. Sees(Workspace(spec), p) = "rw"
    BY <2>1, <2>2, LaterDecides, PartsAre DEF UpTo4
  <2>4. PICK i \in Reaching(Workspace(spec), p) : Workspace(spec)[i].kind = "rw"
    BY <2>2, <2>3, SeenIsMounted, PartsAre
  <2>5. (IF spec.readOnly THEN "ro" ELSE "rw") = "rw"
    BY <2>4, WorkspaceReaches
  <2> QED BY <1>1, <2>5
<1>2. CASE ~Covers(spec.root, p)
  <2>1. Sees(UpTo3(spec, grants), p) = "rw"
    BY <1>2, OutsideWorkspace
  <2>2. Sees(UpTo2(spec, grants), p) = "rw"
    BY <2>1, GroupsShow DEF UpTo3
  <2>3. Sees(UpTo1(spec, grants), p) = "rw"
    BY <2>2, GroupsShow DEF UpTo2
  <2>4. Granted(spec, grants) \in Seq(Mounted)
    BY GrantedIs
  <2>5. ASSUME Reaching(Granted(spec, grants), p) = {} PROVE FALSE
    <3>1. Sees(Base, p) = "rw"
      BY <2>3, <2>4, <2>5, EarlierStays, PartsAre DEF UpTo1
    <3>2. PICK i \in Reaching(Base, p) : Base[i].kind = "rw"
      BY <3>1, SeenIsMounted, PartsAre
    <3>3. i \in 1..2
      BY DEF Reaching, Base
    <3> QED BY <3>2, <3>3 DEF Base
  <2>6. Sees(Granted(spec, grants), p) = "rw"
    BY <2>3, <2>4, <2>5, LaterDecides, PartsAre DEF UpTo1
  <2>7. PICK i \in Reaching(Granted(spec, grants), p) : Granted(spec, grants)[i].kind = "rw"
    BY <2>4, <2>5, <2>6, SeenIsMounted
  <2>8. i \in 1..Len(Granted(spec, grants)) /\ Covers(Granted(spec, grants)[i].at, p)
    BY DEF Reaching
  <2>9. PICK g \in AllowedGrants(spec, grants) :
               Granted(spec, grants)[i] = [at |-> g.path, kind |-> g.access]
    BY <2>8, GrantedIs
  <2> QED BY <1>2, <2>7, <2>8, <2>9
<1> QED BY <1>1, <1>2

----------------------------------------------------------------------------
(* The invariant.                                                          *)

(* What the allowed calls of a kind may write outside the workspace.       *)
Outside(requests) == UNION {Action(r, box.root).writes : r \in requests}
ToWrite == Outside({r \in allowed : Access(r) = "rw"})

(* A command under way; its grants were those of the moment it started.    *)
RunningCalls ==
  [phase : {"running"}, request : Requests,
   grants : SUBSET [path : Outside(Requests), access : {"ro", "rw"}],
   env : SUBSET EnvNames, process : {"alive", "gone"}, detached : BOOLEAN,
   reading : SUBSET Streams, timer : {"armed", "fired"}]

BoxInv ==
  \E s \in Starts :
    /\ full = s.full
    /\ box = SandboxSpec(IF full THEN "disabled" ELSE "workspace", s.root, s.readOnly, s.trial, s.empty)

TypeInv ==
  /\ call \in [Callers -> {Idle} \cup [phase : {"asking", "allowed"}, request : Requests]
                             \cup RunningCalls]
  /\ allowed \subseteq Requests

(* Only a catastrophic command is asked about, so that a yes is kept under *)
(* the command.                                                            *)
AskInv == \A c \in Callers : call[c].phase = "asking" => HardDeny(call[c].request)

(* A path in the ledger was named by an allowed call, with its access.     *)
LedgerInv ==
  \A k \in ledger :
    \/ \E r \in Requests : r.tool = "bash" /\ k = <<"command", r.command>>
    \/ \E r \in allowed : \E t \in Action(r, box.root).writes : k = <<"path", t, Access(r)>>

(* A command under way is a bash call, in the environment of the sandbox,  *)
(* and may write where a writing call was allowed to.                      *)
RunInv ==
  \A c \in Callers :
    Running(c) =>
      /\ call[c].request.tool = "bash"
      /\ call[c].env = ChildEnv(box)
      /\ \A g \in call[c].grants : g.access = "rw" => g.path \in ToWrite

IInv == BoxInv /\ TypeInv /\ AskInv /\ LedgerInv /\ RunInv

(* The sandbox of a run: a root that exists, masks and files from the      *)
(* tables, and no sandbox at all only with full access.                    *)
LEMMA BoxFacts ==
  ASSUME BoxInv
  PROVE  BoxOk(box) /\ (~full => box.policy = "workspace")
<1>1. PICK s \in Starts :
        /\ full = s.full
        /\ box = SandboxSpec(IF full THEN "disabled" ELSE "workspace", s.root, s.readOnly, s.trial, s.empty)
  BY DEF BoxInv
<1>2. Masks(s.root) \subseteq Paths
  BY PathsAre DEF Masks
<1>3. s.root \in Existing
  BY StartsAssumption
<1>4. /\ box.root = s.root
      /\ box.masks = IF box.policy = "disabled" THEN {} ELSE Masks(s.root)
      /\ box.files = IF box.policy = "disabled" THEN {} ELSE MaskFiles
      /\ box.policy = IF full THEN "disabled" ELSE "workspace"
  BY <1>1 DEF SandboxSpec
<1> QED BY <1>2, <1>3, <1>4 DEF BoxOk

(* What a call is, by its phase.                                           *)
LEMMA Phases ==
  ASSUME TypeInv, NEW c \in Callers
  PROVE  /\ call[c].phase = "running" => call[c] \in RunningCalls
         /\ call[c].phase \in {"asking", "allowed"} =>
              call[c] \in [phase : {"asking", "allowed"}, request : Requests]
<1>1. call[c] \in {Idle} \cup [phase : {"asking", "allowed"}, request : Requests] \cup RunningCalls
  BY DEF TypeInv
<1>2. CASE call[c] = Idle
  BY <1>2 DEF Idle
<1>3. CASE call[c] \in [phase : {"asking", "allowed"}, request : Requests]
  BY <1>3
<1>4. CASE call[c] \in RunningCalls
  BY <1>4 DEF RunningCalls
<1> QED BY <1>1, <1>2, <1>3, <1>4

(* The keys of the ledger give the grants of a command that starts now.    *)
LEMMA GrantsAre ==
  ASSUME IInv
  PROVE  /\ PathGrants \in SUBSET [path : Outside(Requests), access : {"ro", "rw"}]
         /\ \A g \in PathGrants : g.access = "rw" => g.path \in ToWrite
<1> DEFINE keys == {k \in ledger : k[1] = "path"}
<1> DEFINE Rw(p) == \E k \in keys : k[2] = p /\ (Len(k) = 2 \/ k[Len(k)] = "rw")
<1>1. PathGrants = {[path |-> k[2], access |-> IF Rw(k[2]) THEN "rw" ELSE "ro"] : k \in keys}
  BY DEF PathGrants
<1>2. ASSUME NEW k \in keys
      PROVE  \E r \in allowed : \E t \in Action(r, box.root).writes :
               /\ k[2] = t /\ Len(k) = 3 /\ k[3] = Access(r)
  <2>1. k \in ledger /\ k[1] = "path"
    OBVIOUS
  <2>2. ~\E r \in Requests : r.tool = "bash" /\ k = <<"command", r.command>>
    BY <2>1
  <2>3. PICK r \in allowed : \E t \in Action(r, box.root).writes : k = <<"path", t, Access(r)>>
    BY <2>1, <2>2 DEF IInv, LedgerInv
  <2>4. PICK t \in Action(r, box.root).writes : k = <<"path", t, Access(r)>>
    BY <2>3
  <2>5. k[2] = t /\ Len(k) = 3 /\ k[3] = Access(r)
    BY <2>4
  <2> QED BY <2>5
<1> HIDE DEF keys
<1>3. ASSUME NEW k \in keys
      PROVE  k[2] \in Outside(Requests) /\ (Rw(k[2]) => k[2] \in ToWrite)
  <2>1. k[2] \in Outside(Requests)
    <3>1. PICK r \in allowed : k[2] \in Action(r, box.root).writes
      BY <1>2
    <3>2. r \in Requests
      BY DEF IInv, TypeInv
    <3> QED BY <3>1, <3>2 DEF Outside
  <2>2. ASSUME Rw(k[2]) PROVE k[2] \in ToWrite
    <3>1. PICK j \in keys : j[2] = k[2] /\ (Len(j) = 2 \/ j[Len(j)] = "rw")
      BY <2>2
    <3>2. PICK r \in allowed : \E t \in Action(r, box.root).writes :
                                 /\ j[2] = t /\ Len(j) = 3 /\ j[3] = Access(r)
      BY <1>2
    <3>3. Access(r) = "rw" /\ j[2] \in Action(r, box.root).writes
      BY <3>1, <3>2
    <3> QED BY <3>1, <3>3 DEF ToWrite, Outside
  <2> QED BY <2>1, <2>2
<1> HIDE DEF Rw
<1>4. ASSUME NEW g \in PathGrants
      PROVE  g \in [path : Outside(Requests), access : {"ro", "rw"}] /\ (g.access = "rw" => g.path \in ToWrite)
  <2>1. PICK k \in keys : g = [path |-> k[2], access |-> IF Rw(k[2]) THEN "rw" ELSE "ro"]
    BY <1>1
  <2> QED BY <1>3, <2>1
<1> QED BY <1>4

(* A call that only its own process or readers touch.                      *)
LEMMA ProcessStep ==
  ASSUME IInv, NEW c \in Callers, NEW y \in RunningCalls, Running(c),
         y.request = call[c].request, y.grants = call[c].grants, y.env = call[c].env,
         call' = [call EXCEPT ![c] = y], UNCHANGED <<box, full, ledger, calls, allowed>>
  PROVE  IInv'
<1> USE DEF IInv
<1>1. BoxInv' /\ LedgerInv'
  BY DEF BoxInv, LedgerInv
<1>2. TypeInv'
  <2>1. RunningCalls' = RunningCalls
    BY DEF RunningCalls, Outside
  <2> QED BY <2>1 DEF TypeInv
<1>3. \A d \in Callers : call'[d] = IF d = c THEN y ELSE call[d]
  BY DEF TypeInv
<1>4. y.phase = "running"
  BY DEF RunningCalls
<1>5. AskInv'
  BY <1>3, <1>4 DEF AskInv
<1>6. RunInv'
  <2>1. ToWrite' = ToWrite /\ ChildEnv(box)' = ChildEnv(box)
    BY DEF ToWrite, Outside
  <2> QED BY <1>3, <1>4, <2>1 DEF RunInv, Running
<1> QED BY <1>1, <1>2, <1>5, <1>6

(* A call that is over.                                                    *)
LEMMA IdleStep ==
  ASSUME IInv, NEW c \in Callers, call' = [call EXCEPT ![c] = Idle],
         UNCHANGED <<box, full, ledger, allowed>>
  PROVE  IInv'
<1> USE DEF IInv
<1>1. BoxInv' /\ LedgerInv'
  BY DEF BoxInv, LedgerInv
<1>2. TypeInv'
  <2>1. RunningCalls' = RunningCalls
    BY DEF RunningCalls, Outside
  <2> QED BY <2>1 DEF TypeInv
<1>3. \A d \in Callers : call'[d] = IF d = c THEN Idle ELSE call[d]
  BY DEF TypeInv
<1>4. Idle.phase = "idle"
  BY DEF Idle
<1>5. AskInv'
  BY <1>3, <1>4 DEF AskInv
<1>6. RunInv'
  <2>1. ToWrite' = ToWrite /\ ChildEnv(box)' = ChildEnv(box)
    BY DEF ToWrite, Outside
  <2> QED BY <1>3, <1>4, <2>1 DEF RunInv, Running
<1> QED BY <1>1, <1>2, <1>5, <1>6

(* Allowing a call puts the paths it writes into the ledger, and nothing   *)
(* else but the command that was asked about.                              *)
LEMMA AllowStep ==
  ASSUME IInv, NEW c \in Callers, NEW request \in Requests, NEW extra, Allow(c, request, extra),
         \A k \in extra : \E r \in Requests : r.tool = "bash" /\ k = <<"command", r.command>>,
         UNCHANGED <<box, full>>
  PROVE  IInv'
<1> USE DEF IInv
<1> DEFINE new == [phase |-> "allowed", request |-> request]
<1>1. /\ call' = [call EXCEPT ![c] = new] /\ allowed' = allowed \cup {request}
      /\ ledger' = ledger \cup extra \cup Grants(Action(request, box.root))
  BY DEF Allow
<1>2. BoxInv'
  BY DEF BoxInv
<1>3. TypeInv'
  <2>1. RunningCalls' = RunningCalls
    BY DEF RunningCalls, Outside
  <2> QED BY <1>1, <2>1 DEF TypeInv
<1>4. \A d \in Callers : call'[d] = IF d = c THEN new ELSE call[d]
  BY <1>1 DEF TypeInv
<1>5. AskInv'
  BY <1>4 DEF AskInv
<1>6. LedgerInv'
  <2> SUFFICES ASSUME NEW k \in ledger'
               PROVE  \/ \E r \in Requests : r.tool = "bash" /\ k = <<"command", r.command>>
                      \/ \E r \in allowed' : \E t \in Action(r, box.root).writes : k = <<"path", t, Access(r)>>
    BY DEF LedgerInv
  <2>1. CASE k \in ledger
    BY <1>1, <2>1 DEF LedgerInv
  <2>2. CASE k \in extra
    BY <2>2
  <2>3. CASE k \in Grants(Action(request, box.root))
    <3>1. Action(request, box.root).access = Access(request)
      BY DEF Action
    <3>2. PICK t \in Action(request, box.root).writes : k = <<"path", t, Access(request)>>
      BY <2>3, <3>1 DEF Grants
    <3> QED BY <1>1, <3>2
  <2> QED BY <1>1, <2>1, <2>2, <2>3
<1>7. RunInv'
  <2>1. ToWrite \subseteq ToWrite' /\ ChildEnv(box)' = ChildEnv(box)
    BY <1>1 DEF ToWrite, Outside
  <2> QED BY <1>4, <2>1 DEF RunInv, Running
<1> QED BY <1>2, <1>3, <1>5, <1>6, <1>7

(* The invariant holds at the start.                                       *)
LEMMA IInvInit == Init => IInv
<1> SUFFICES ASSUME Init PROVE IInv
  OBVIOUS
<1>1. BoxInv
  BY DEF Init, BoxInv
<1>2. TypeInv /\ LedgerInv
  BY DEF Init, TypeInv, LedgerInv
<1>3. \A c \in Callers : call[c].phase = "idle"
  BY DEF Init, Idle
<1>4. AskInv /\ RunInv
  BY <1>3 DEF AskInv, RunInv, Running
<1> QED BY <1>1, <1>2, <1>4 DEF IInv

(* Every step keeps it.                                                    *)
LEMMA IInvStep == IInv /\ [Next]_vars => IInv'
<1> SUFFICES ASSUME IInv, [Next]_vars PROVE IInv'
  OBVIOUS
<1>0. CASE UNCHANGED vars
  <2>1. RunningCalls' = RunningCalls /\ ToWrite' = ToWrite /\ ChildEnv(box)' = ChildEnv(box)
    BY <1>0 DEF vars, RunningCalls, ToWrite, Outside
  <2> QED BY <1>0, <2>1 DEF vars, IInv, BoxInv, TypeInv, AskInv, LedgerInv, RunInv, Running
<1> SUFFICES ASSUME NEW c \in Callers,
                    \/ \E request \in Requests : Gate(c, request)
                    \/ Answer(c) \/ UseFile(c) \/ Spawn(c) \/ SpawnFails(c)
                    \/ Detach(c) \/ Exit(c) \/ Deadline(c) \/ Reap(c)
                    \/ \E stream \in Streams : Eof(c, stream) \/ Flood(c, stream)
             PROVE  IInv'
  BY <1>0 DEF Next
<1>a. TypeInv
  BY DEF IInv
<1>1. ASSUME NEW request \in Requests, Gate(c, request)
      PROVE  IInv'
  <2> DEFINE action == Action(request, box.root)
  <2>1. UNCHANGED <<box, full>>
    BY <1>1 DEF Gate
  <2>2. CASE Deny(c)
    BY <2>1, <2>2, IdleStep DEF Deny
  <2>3. CASE Allow(c, request, {})
    BY <2>1, <2>3, AllowStep
  <2>4. CASE /\ action.damage
             /\ call' = [call EXCEPT ![c] = [phase |-> "asking", request |-> request]]
             /\ UNCHANGED <<ledger, allowed>>
    <3> DEFINE new == [phase |-> "asking", request |-> request]
    <3>1. HardDeny(request)
      BY <2>4 DEF Action
    <3>2. RunningCalls' = RunningCalls /\ ToWrite' = ToWrite /\ ChildEnv(box)' = ChildEnv(box)
      BY <2>1, <2>4 DEF RunningCalls, ToWrite, Outside
    <3>3. TypeInv'
      BY <1>a, <2>4, <3>2 DEF TypeInv
    <3>4. \A d \in Callers : call'[d] = IF d = c THEN new ELSE call[d]
      BY <1>a, <2>4 DEF TypeInv
    <3>5. BoxInv' /\ LedgerInv'
      BY <2>1, <2>4 DEF IInv, BoxInv, LedgerInv
    <3>6. AskInv'
      BY <3>1, <3>4 DEF IInv, AskInv
    <3>7. RunInv'
      BY <3>2, <3>4 DEF IInv, RunInv, Running
    <3> QED BY <3>3, <3>5, <3>6, <3>7 DEF IInv
  <2> QED BY <1>1, <2>2, <2>3, <2>4 DEF Gate
<1>2. CASE Answer(c)
  <2>1. call[c].phase = "asking" /\ UNCHANGED <<box, full>>
    BY <1>2 DEF Answer
  <2>2. call[c].request \in Requests
    BY <1>a, <2>1, Phases
  <2>3. CASE Deny(c)
    BY <2>1, <2>3, IdleStep DEF Deny
  <2>4. CASE Allow(c, call[c].request, {Action(call[c].request, box.root).key})
    <3>1. call[c].request.tool = "bash"
      BY <2>1 DEF IInv, AskInv, HardDeny
    <3>2. Action(call[c].request, box.root).key = <<"command", call[c].request.command>>
      BY <3>1 DEF Action, ReviewKey
    <3>3. \A k \in {Action(call[c].request, box.root).key} :
            \E r \in Requests : r.tool = "bash" /\ k = <<"command", r.command>>
      BY <2>2, <3>1, <3>2
    <3> QED BY <2>1, <2>2, <2>4, <3>3, AllowStep
  <2> QED BY <1>2, <2>3, <2>4 DEF Answer
<1>3. CASE UseFile(c)
  BY <1>3, IdleStep DEF UseFile
<1>4. CASE Spawn(c)
  <2> DEFINE new == [phase |-> "running", request |-> call[c].request, grants |-> PathGrants,
                     env |-> ChildEnv(box), process |-> "alive", detached |-> FALSE,
                     reading |-> Streams, timer |-> "armed"]
  <2>1. /\ call[c].phase = "allowed" /\ call[c].request.tool = "bash"
        /\ call' = [call EXCEPT ![c] = new] /\ UNCHANGED <<box, full, ledger, calls, allowed>>
    BY <1>4 DEF Spawn
  <2>2. call[c].request \in Requests
    BY <1>a, <2>1, Phases
  <2>3. ChildEnv(box) \in SUBSET EnvNames
    BY DEF ChildEnv, ApplyEnv, ScrubbedEnv
  <2>4. new \in RunningCalls
    BY <2>2, <2>3, GrantsAre DEF RunningCalls
  <2>5. RunningCalls' = RunningCalls /\ ToWrite' = ToWrite /\ ChildEnv(box)' = ChildEnv(box)
    BY <2>1 DEF RunningCalls, ToWrite, Outside
  <2>6. /\ new.phase = "running" /\ new.request = call[c].request /\ new.env = ChildEnv(box)
        /\ new.grants = PathGrants
    OBVIOUS
  <2> HIDE DEF new
  <2>7. TypeInv'
    BY <1>a, <2>1, <2>4, <2>5 DEF TypeInv
  <2>8. \A d \in Callers : call'[d] = IF d = c THEN new ELSE call[d]
    BY <1>a, <2>1 DEF TypeInv
  <2>9. BoxInv' /\ LedgerInv'
    BY <2>1 DEF IInv, BoxInv, LedgerInv
  <2>10. AskInv'
    BY <2>6, <2>8 DEF IInv, AskInv
  <2>11. RunInv'
    BY <2>1, <2>5, <2>6, <2>8, GrantsAre DEF IInv, RunInv, Running
  <2> QED BY <2>7, <2>9, <2>10, <2>11 DEF IInv
<1>5. ASSUME Detach(c)
      PROVE  IInv'
  <2> DEFINE y == [call[c] EXCEPT !.detached = TRUE]
  <2>1. Running(c) /\ call' = [call EXCEPT ![c] = y] /\ UNCHANGED <<box, full, ledger, calls, allowed>>
    BY <1>5 DEF Detach, KillTree
  <2>2. call[c] \in RunningCalls
    BY <1>a, <2>1, Phases DEF Running
  <2>3. y \in RunningCalls /\ y.request = call[c].request /\ y.grants = call[c].grants /\ y.env = call[c].env
    BY <2>2 DEF RunningCalls
  <2> HIDE DEF y
  <2> QED BY <2>1, <2>3, ProcessStep
<1>6. ASSUME Exit(c)
      PROVE  IInv'
  <2> DEFINE y == [call[c] EXCEPT !.process = "gone"]
  <2>1. Running(c) /\ call' = [call EXCEPT ![c] = y] /\ UNCHANGED <<box, full, ledger, calls, allowed>>
    BY <1>6 DEF Exit, KillTree
  <2>2. call[c] \in RunningCalls
    BY <1>a, <2>1, Phases DEF Running
  <2>3. y \in RunningCalls /\ y.request = call[c].request /\ y.grants = call[c].grants /\ y.env = call[c].env
    BY <2>2 DEF RunningCalls
  <2> HIDE DEF y
  <2> QED BY <2>1, <2>3, ProcessStep
<1>7. ASSUME Deadline(c)
      PROVE  IInv'
  <2> DEFINE y == [KillTree(c) EXCEPT !.timer = "fired"]
  <2>1. Running(c) /\ call' = [call EXCEPT ![c] = y] /\ UNCHANGED <<box, full, ledger, calls, allowed>>
    BY <1>7 DEF Deadline, KillTree
  <2>2. call[c] \in RunningCalls
    BY <1>a, <2>1, Phases DEF Running
  <2>3. y \in RunningCalls /\ y.request = call[c].request /\ y.grants = call[c].grants /\ y.env = call[c].env
    BY <2>2 DEF RunningCalls, KillTree
  <2> HIDE DEF y
  <2> QED BY <2>1, <2>3, ProcessStep
<1>8. CASE Reap(c) \/ SpawnFails(c)
  BY <1>8, IdleStep DEF Reap, SpawnFails
<1>9. ASSUME NEW stream \in Streams, Eof(c, stream)
      PROVE  IInv'
  <2> DEFINE y == [call[c] EXCEPT !.reading = @ \ {stream}]
  <2>1. Running(c) /\ call' = [call EXCEPT ![c] = y] /\ UNCHANGED <<box, full, ledger, calls, allowed>>
    BY <1>9 DEF Eof, KillTree
  <2>2. call[c] \in RunningCalls
    BY <1>a, <2>1, Phases DEF Running
  <2>3. y \in RunningCalls /\ y.request = call[c].request /\ y.grants = call[c].grants /\ y.env = call[c].env
    BY <2>2 DEF RunningCalls
  <2> HIDE DEF y
  <2> QED BY <2>1, <2>3, ProcessStep
<1>10. ASSUME NEW stream \in Streams, Flood(c, stream)
      PROVE  IInv'
  <2> DEFINE y == [KillTree(c) EXCEPT !.reading = @ \ {stream}]
  <2>1. Running(c) /\ call' = [call EXCEPT ![c] = y] /\ UNCHANGED <<box, full, ledger, calls, allowed>>
    BY <1>10 DEF Flood, KillTree
  <2>2. call[c] \in RunningCalls
    BY <1>a, <2>1, Phases DEF Running
  <2>3. y \in RunningCalls /\ y.request = call[c].request /\ y.grants = call[c].grants /\ y.env = call[c].env
    BY <2>2 DEF RunningCalls, KillTree
  <2> HIDE DEF y
  <2> QED BY <2>1, <2>3, ProcessStep
<1> QED BY <1>1, <1>2, <1>3, <1>4, <1>5, <1>6, <1>7, <1>8, <1>9, <1>10

(* The invariant holds of every run.                                       *)
LEMMA Invariance == SecuritySpec => []IInv
BY IInvInit, IInvStep, PTL DEF SecuritySpec

----------------------------------------------------------------------------
(* What the invariant is for.                                              *)

(* The state of a running command meets what the mount lemmas ask for.     *)
LEMMA RunningFacts ==
  ASSUME IInv, NEW c \in Callers, Running(c)
  PROVE  /\ GrantsOk(call[c].grants) /\ BoxOk(box)
         /\ call[c].request \in Requests /\ call[c].request.tool = "bash"
<1>1. call[c] \in RunningCalls
  BY Phases DEF IInv, Running
<1>2. GrantsOk(call[c].grants) /\ call[c].request \in Requests
  BY <1>1 DEF RunningCalls, GrantsOk
<1> QED BY <1>2, BoxFacts DEF IInv, RunInv

(* Whatever was approved and in whatever order, behind the mount list of   *)
(* Sandbox.argv_prefix no command finds the contents of a mask directory,  *)
(* nor of a mask file if there is an empty file to cover it, and short of  *)
(* full access none inherits a secret.                                     *)
THEOREM MasksAlwaysHold == SecuritySpec => []MasksHold
<1>1. ASSUME IInv PROVE MasksHold
  <2> SUFFICES ASSUME NEW c \in Callers, Running(c)
               PROVE  /\ ~full => \A n \in call[c].env : ~n.secret /\ ~n.withheld
                      /\ Enforced(box) =>
                          /\ \A m \in box.masks \cap Existing, p \in Existing :
                               Covers(m, p) /\ ~(Covers(m, box.root) /\ Covers(box.root, p)) =>
                                 Sees(Mounts(box, call[c].grants), p) \in Hidden
                          /\ \A f \in box.files \cap Existing :
                               box.empty /\ ~Covers(box.root, f) =>
                                 Sees(Mounts(box, call[c].grants), f) \in Hidden
    BY DEF MasksHold
  <2>1. ASSUME ~full PROVE \A n \in call[c].env : ~n.secret /\ ~n.withheld
    <3>1. call[c].env = ChildEnv(box) /\ box.policy = "workspace"
      BY <1>1, <2>1, BoxFacts DEF IInv, RunInv
    <3>2. ChildEnv(box) \subseteq ScrubbedEnv
      BY <3>1 DEF ChildEnv, ApplyEnv
    <3> QED BY <3>1, <3>2 DEF ScrubbedEnv
  <2>2. GrantsOk(call[c].grants) /\ BoxOk(box)
    BY <1>1, RunningFacts
  <2>3. \A m \in box.masks \cap Existing, p \in Existing :
          Covers(m, p) /\ ~(Covers(m, box.root) /\ Covers(box.root, p)) =>
            Sees(Mounts(box, call[c].grants), p) \in Hidden
    BY <2>2, MaskedIsHidden
  <2>4. \A f \in box.files \cap Existing :
          box.empty /\ ~Covers(box.root, f) => Sees(Mounts(box, call[c].grants), f) \in Hidden
    BY <2>2, FileIsHidden
  <2> QED BY <2>1, <2>3, <2>4
<1> QED BY <1>1, Invariance, PTL

(* A sandboxed command changes a host path outside the workspace only      *)
(* below a path that an allowed writing call of the run named: what        *)
(* AllowedGrants lets through and the ledger holds.                        *)
THEOREM WritesAreAlwaysGranted == SecuritySpec => []WritesAreGranted
<1>1. ASSUME IInv PROVE WritesAreGranted
  <2> SUFFICES ASSUME NEW c \in Callers, NEW p \in Existing, Running(c),
                      Sees(Mounts(box, call[c].grants), p) = "rw"
               PROVE  \/ Covers(box.root, p) /\ ~box.readOnly
                      \/ /\ ~Covers(box.root, p)
                         /\ \E r \in allowed, t \in Existing :
                              /\ r.tool = "write_file" \/ (r.tool = "bash" /\ WriteHint(r.command))
                              /\ t \in Action(r, box.root).writes
                              /\ Covers(t, p) /\ ~Covers(t, Home) /\ ~Covers(t, box.root)
    BY DEF WritesAreGranted
  <2>1. GrantsOk(call[c].grants) /\ BoxOk(box) /\ p \in Paths
    BY <1>1, RunningFacts, PathsAre
  <2>2. \/ Covers(box.root, p) /\ ~box.readOnly
        \/ /\ ~Covers(box.root, p)
           /\ \E g \in AllowedGrants(box, call[c].grants) : g.access = "rw" /\ Covers(g.path, p)
    BY <2>1, WritableIsGranted
  <2>3. ASSUME NEW g \in AllowedGrants(box, call[c].grants), g.access = "rw", Covers(g.path, p)
        PROVE  \E r \in allowed, t \in Existing :
                 /\ r.tool = "write_file" \/ (r.tool = "bash" /\ WriteHint(r.command))
                 /\ t \in Action(r, box.root).writes
                 /\ Covers(t, p) /\ ~Covers(t, Home) /\ ~Covers(t, box.root)
    <3>1. g \in call[c].grants /\ g.path \in Existing /\ ~TooWideForRw(box, g.path)
      BY <2>3 DEF AllowedGrants
    <3>2. ~Covers(g.path, Home) /\ ~Covers(g.path, box.root)
      BY <3>1 DEF TooWideForRw
    <3>3. g.path \in ToWrite
      BY <1>1, <2>3, <3>1 DEF IInv, RunInv
    <3>4. PICK r \in allowed : Access(r) = "rw" /\ g.path \in Action(r, box.root).writes
      BY <3>3 DEF ToWrite, Outside
    <3>5. r.tool = "write_file" \/ (r.tool = "bash" /\ WriteHint(r.command))
      BY <3>4 DEF Access
    <3> QED BY <2>3, <3>1, <3>2, <3>4, <3>5
  <2> QED BY <2>2, <2>3
<1> QED BY <1>1, Invariance, PTL

(* Every segment is read as part of one that the lexer begins.             *)
LEMMA EverySegmentIsRead ==
  ASSUME NEW segs, Len(segs) \in Nat, NEW j \in 1..Len(segs)
  PROVE  \E i \in Heads(segs) : j \in ReadAs(segs, i)
<1> DEFINE S == {i \in Heads(segs) : i <= j}
<1>1. S \in SUBSET (1..Len(segs)) /\ 1 \in S
  BY DEF Heads
<1>2. Max(S) \in S
  <2> HIDE DEF S
  <2> QED BY <1>1, MaxIs
<1>3. HeadOf(segs, j) = Max(S)
  BY DEF HeadOf
<1>4. Max(S) \in Heads(segs)
  BY <1>2
<1> HIDE DEF S
<1> QED BY <1>3, <1>4 DEF ReadAs

(* What the parser must see in a command it calls read-only: no            *)
(* substitution and, in each segment the lexer begins, no child shell, a   *)
(* reading program of the table and no redirection among its words.        *)
LEMMA ReadOnlySegments ==
  ASSUME NEW command, is_read_only(command)
  PROVE  /\ Range(command.substitutions) = {}
         /\ \A i \in Heads(command.segments) :
              /\ command.segments[i].program \in {"cat", "git_diff"}
              /\ Redirects(command.segments, i) = {}
              /\ Range(command.segments[i].child) = {}
<1> DEFINE inner == [c \in Nested(command) |-> ParseInner(c)]
<1> DEFINE segs == command.segments
<1> DEFINE facts == Parse(command, inner)
<1>1. parse_shell(command) = facts
  BY DEF parse_shell
<1> HIDE DEF inner
<1>2. /\ ~facts.uncertain /\ facts.capabilities \cap StateCaps = {}
      /\ facts.programs \subseteq ReadOnlyPrograms
  BY <1>1 DEF is_read_only
<1>3. ~Unproven(command, inner)
  BY <1>2 DEF Parse
<1>4. CapsAt(command, Len(segs), inner) \subseteq facts.capabilities
  BY DEF Parse
<1>5. ASSUME NEW c \in Range(command.substitutions) PROVE FALSE
  <2>1. "shell_execute" \in facts.capabilities
    BY DEF Parse
  <2> QED BY <1>2, <2>1 DEF StateCaps
<1>6. ASSUME NEW i \in Heads(segs)
      PROVE  /\ segs[i].program \in {"cat", "git_diff"}
             /\ Redirects(segs, i) = {} /\ Range(segs[i].child) = {}
  <2>1. Own(segs, i, inner) \cap StateCaps = {}
    <3>1. i \in Heads(segs) \cap 1..Len(segs)
      BY DEF Heads
    <3>2. Own(segs, i, inner) \subseteq CapsAt(command, Len(segs), inner)
      BY <3>1 DEF CapsAt
    <3> QED BY <1>2, <1>4, <3>2
  <2>2. Redirects(segs, i) = {}
    <3>1. ASSUME Redirects(segs, i) # {} PROVE FALSE
      <4>1. "filesystem_write" \in Own(segs, i, inner)
        BY <3>1 DEF Own
      <4> QED BY <2>1, <4>1 DEF StateCaps
    <3> QED BY <3>1
  <2>3. ASSUME NEW c \in Range(segs[i].child) PROVE FALSE
    <3>1. "shell_execute" \in Own(segs, i, inner)
      BY DEF Own
    <3> QED BY <2>1, <3>1 DEF StateCaps
  <2>4. segs[i].program \in ReadOnlyPrograms
    <3>1. segs[i].program \in facts.programs
      BY DEF Parse
    <3> QED BY <1>2, <3>1
  <2>5. segs[i].program # UnknownVerb
    BY <1>3 DEF Unproven
  <2>6. segs[i].program # "git_commit"
    <3>1. ASSUME segs[i].program = "git_commit" PROVE FALSE
      <4>1. "git_commit" \in KnownPrograms /\ "filesystem_write" \in ProgramCaps["git_commit"]
        BY DEF KnownPrograms, ProgramCaps
      <4>2. "filesystem_write" \in Own(segs, i, inner)
        BY <3>1, <4>1 DEF Own
      <4> QED BY <2>1, <4>2 DEF StateCaps
    <3> QED BY <3>1
  <2> QED BY <2>2, <2>3, <2>4, <2>5, <2>6 DEF ReadOnlyPrograms, UnknownVerb
<1> QED BY <1>5, <1>6

(* So what such a command writes stands where the lexer does not look.     *)
LEMMA ReadOnlyWritesNothingPlain ==
  ASSUME NEW command, is_read_only(command), Len(command.segments) \in Nat,
         NEW w \in Touches(command)
  PROVE  ~w.plain
<1> DEFINE segs == command.segments
<1> DEFINE At(r, i) ==
      LET s == r.text.segments[i]
      IN {[path |-> p, plain |-> r.found] : p \in Range(s.redirect)}
           \cup {[path |-> p, plain |-> r.found /\ i \in Heads(r.text.segments)] : p \in Writes(s)}
           \cup {[path |-> p, plain |-> FALSE] : p \in Range(s.glued) \cup Range(s.option)}
<1>0. PICK r \in Runs(command) : \E i \in 1..Len(r.text.segments) : w \in At(r, i)
  BY DEF Touches
<1>1. PICK i \in 1..Len(r.text.segments) : w \in At(r, i)
  BY <1>0
<1>a. \/ Range(r.text.segments[i].redirect) # {} /\ w.plain = r.found
      \/ Writes(r.text.segments[i]) # {} /\ w.plain = (r.found /\ i \in Heads(r.text.segments))
      \/ w.plain = FALSE
  <2> DEFINE s == r.text.segments[i]
  <2>1. \/ w \in {[path |-> p, plain |-> r.found] : p \in Range(s.redirect)}
        \/ w \in {[path |-> p, plain |-> r.found /\ i \in Heads(r.text.segments)] : p \in Writes(s)}
        \/ w \in {[path |-> p, plain |-> FALSE] : p \in Range(s.glued) \cup Range(s.option)}
    BY <1>1
  <2> HIDE DEF s
  <2>2. CASE w \in {[path |-> p, plain |-> r.found] : p \in Range(s.redirect)}
    BY <2>2 DEF s
  <2>3. CASE w \in {[path |-> p, plain |-> r.found /\ i \in Heads(r.text.segments)] : p \in Writes(s)}
    BY <2>3 DEF s
  <2>4. CASE w \in {[path |-> p, plain |-> FALSE] : p \in Range(s.glued) \cup Range(s.option)}
    BY <2>4
  <2> QED BY <2>1, <2>2, <2>3, <2>4
<1> HIDE DEF At
<1>2. CASE r.found = FALSE
  BY <1>a, <1>2
<1>3. CASE r.found # FALSE
  <2>1. r = [text |-> command, found |-> TRUE]
    <3> DEFINE Within(c) ==
          UNION {{[text |-> d, found |-> k \in Heads(c.segments)] :
                    d \in Range(c.segments[k].child)
                           \cup (IF c.segments[k].program \in ReadOnlyPrograms THEN {}
                                 ELSE Range(c.segments[k].block))}
                 : k \in 1..Len(c.segments)}
    <3>1. \A x \in Within(command) : x.found = FALSE
      <4> DEFINE Given(k) == Range(segs[k].child)
                               \cup (IF segs[k].program \in ReadOnlyPrograms THEN {}
                                     ELSE Range(segs[k].block))
      <4>1. ASSUME NEW k \in Heads(segs) PROVE Given(k) = {}
        BY ReadOnlySegments DEF ReadOnlyPrograms
      <4>2. Within(command) = UNION {{[text |-> d, found |-> k \in Heads(segs)] : d \in Given(k)}
                                     : k \in 1..Len(segs)}
        OBVIOUS
      <4> HIDE DEF Given, Within
      <4>3. ASSUME NEW x \in Within(command) PROVE x.found = FALSE
        <5>1. PICK k \in 1..Len(segs) :
                     x \in {[text |-> d, found |-> k \in Heads(segs)] : d \in Given(k)}
          BY <4>2
        <5>2. PICK d \in Given(k) : x = [text |-> d, found |-> k \in Heads(segs)]
          BY <5>1
        <5>3. k \notin Heads(segs)
          BY <4>1
        <5>4. (k \in Heads(segs)) = FALSE
          BY <5>3
        <5>5. x.found = (k \in Heads(segs))
          BY <5>2
        <5> QED BY <5>4, <5>5
      <4> QED BY <4>3
    <3>2. Range(command.substitutions) = {}
      BY ReadOnlySegments
    <3>3. Runs(command) = {[text |-> command, found |-> TRUE]} \cup Within(command)
      <4>1. Runs(command) =
              UNION {{[text |-> c, found |-> TRUE]} \cup Within(c) :
                       c \in {command} \cup Range(command.substitutions)}
        BY DEF Runs
      <4> HIDE DEF Within
      <4> QED BY <3>2, <4>1
    <3> HIDE DEF Within
    <3> QED BY <1>3, <3>1, <3>3
  <2>2. i \in 1..Len(segs)
    BY <1>1, <2>1
  <2>3. Range(segs[i].redirect) = {}
    <3>1. PICK h \in Heads(segs) : i \in ReadAs(segs, h)
      BY <2>2, EverySegmentIsRead
    <3>2. Redirects(segs, h) = {}
      BY ReadOnlySegments
    <3>3. ASSUME NEW x \in Range(segs[i].redirect) PROVE x \in Redirects(segs, h)
      BY <3>1 DEF Redirects
    <3> QED BY <3>2, <3>3
  <2>4. i \in Heads(segs) => Writes(segs[i]) = {}
    BY ReadOnlySegments DEF Writes
  <2> QED BY <1>a, <2>1, <2>3, <2>4
<1> QED BY <1>2, <1>3

(* A command that is_read_only() lets share a parallel segment writes      *)
(* nothing by a redirection the table of parse_shell() knows, nor by a     *)
(* program in program position, for any command: what is left to it are    *)
(* the ways _lex() does not separate or the tables do not name.            *)
THEOREM SafeIsAlwaysPure == SecuritySpec => []SafeIsPure
<1>1. ASSUME IInv PROVE SafeIsPure
  <2> SUFFICES ASSUME NEW c \in Callers, Running(c), is_read_only(call[c].request.command),
                      NEW w \in Touches(call[c].request.command)
               PROVE  ~w.plain
    BY DEF SafeIsPure
  <2>1. call[c].request \in Requests /\ call[c].request.tool = "bash"
    BY <1>1, RunningFacts
  <2>2. Len(call[c].request.command.segments) \in Nat
    BY <2>1, RequestsAssumption
  <2> QED BY <2>2, ReadOnlyWritesNothingPlain
<1> QED BY <1>1, Invariance, PTL
=============================================================================
