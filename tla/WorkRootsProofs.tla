--------------------------- MODULE WorkRootsProofs ---------------------------
(***************************************************************************)
(* Proofs about the workspaces and the roots sessions work on, for any     *)
(* number of sessions, places, service threads and command lines.          *)
(*                                                                         *)
(* Three arguments meet in one inductive invariant. A caller that is       *)
(* working on a session holds its open file, and while it does the session *)
(* stays in its place (ActorInv). The registry, as long as no two writers  *)
(* overlapped, only grows, because what its one writer is about to put in  *)
(* place still lists all it lists (RegistryInv). And the session that has  *)
(* the root of a place is the one its claim names (ClaimInv).              *)
(***************************************************************************)
EXTENDS WorkRoots, TLAPS

Files    == [Places -> Entry]
Deciding == {"claim", "sign", "owner"}
Running  == {"why", "probe", "root", "tree", "added", "ensure", "work"} \cup Deciding
Leaving  == {"drop", "status", "remove", "branch", "prune"}
Holding  == Running \cup Leaving
Writing  == {"open", "write", "replace"}
Placing  == {"read"} \cup Writing

At    == {"", "mark", "unlink"} \cup Holding \cup Placing
Deeds == {"idle", "register", "unregister", "run", "scratch", "delete"}
Ops   == [does : Deeds,
          at   : At,
          ws   : Places \cup {None},
          s    : Sessions \cup {None},
          seen : Files \cup {None, "why", "root"}]

Typed ==
  /\ registry \in Files \cup {Torn}
  /\ temp \in Files \cup {Torn, None}
  /\ home \in [Sessions -> Places \cup {None, "gone"}]
  /\ op \in [Actors -> Ops]
  /\ claim \in [Places -> Sessions \cup {None, Unsigned}]
  /\ record \in [Sessions -> {"none", "root", "why", "tree"}]
  /\ tree \in [Sessions -> {"none", "clean", "dirty"}]
  /\ branch \in [Sessions -> {"none", "base", "ahead"}]
  /\ handle \in [Sessions -> Actors \cup {None}]
  /\ work \in [Sessions -> SUBSET {"edits", "commits"}]

(* A caller in a run or a deletion has its session open, and the session   *)
(* lies where the caller believes; a caller without a session has none. A  *)
(* deletion that is past the tree finds none, and prunes no branch that is *)
(* ahead.                                                                  *)
ActorInv(a) ==
  LET o == op[a]
  IN /\ o.at \in Holding =>
          /\ o.s \in Sessions /\ handle[o.s] = a
          /\ o.ws \in Places /\ home[o.s] = o.ws
     /\ o.at \in Deciding => o.seen \in {"why", "root"}
     /\ o.at \in {"mark", "unlink"} => o.s \in Sessions
     /\ o.at \in Leaving \cup {"unlink"} => a \in Threads
     /\ o.at \in {""} \cup Placing => o.s = None
     /\ o.at \in Writing => o.seen \in Files
     /\ o.at \in {"branch", "prune"} => tree[o.s] = "none"
     /\ o.at = "prune" => branch[o.s] # "ahead"

(* While no two registry writers overlapped: the file parses, one caller   *)
(* at most is writing, what it will put in place keeps every entry, and    *)
(* every session lies in a place with an entry.                            *)
RegistryInv ==
  /\ registry \in Files
  /\ \A a, b \in Writers : a = b
  /\ \A a \in Writers :
        /\ \A p \in Places : registry[p] # "absent" => op[a].seen[p] # "absent"
        /\ op[a].at = "write" => temp = Torn
        /\ op[a].at = "replace" => temp = op[a].seen
  /\ \A s \in Sessions \ stray : Live(s) => home[s] = Default \/ registry[home[s]] # "absent"

(* A claim that is being signed is one caller's; a session with the root   *)
(* is the one the claim names; a session without a file has no record.     *)
ClaimInv ==
  /\ \A a \in Actors : op[a].at = "sign" => claim[op[a].ws] = Unsigned
  /\ \A a, b \in Actors : op[a].at = "sign" /\ op[b].at = "sign" /\ op[a].ws = op[b].ws => a = b
  /\ \A a \in Actors : op[a].at = "root" /\ op[a].s \notin slipped /\ ~Deleting(op[a].s) =>
        claim[op[a].ws] = op[a].s
  /\ \A s \in Sessions : record[s] = "root" /\ Live(s) /\ s \notin slipped /\ ~Deleting(s) =>
        claim[home[s]] = s
  /\ \A s \in Sessions : home[s] = None => record[s] = "none"

IInv ==
  /\ Typed
  /\ \A a \in Actors : ActorInv(a)
  /\ ~mixed => RegistryInv
  /\ ClaimInv
  /\ WorkIsKept

(* Every caller but a stays where it is.                                   *)
Others(a) == \A b \in Actors \ {a} : op'[b] = op[b]

----------------------------------------------------------------------------
(* What the three ways to change op do.                                    *)

(* A caller that moves on changes only where it stands.                    *)
LEMMA StepEffect ==
  ASSUME op \in [Actors -> Ops], NEW a \in Actors, NEW pc \in At, op' = Step(a, pc)
  PROVE  /\ op' \in [Actors -> Ops] /\ Others(a)
         /\ op'[a].at = pc /\ op'[a].s = op[a].s /\ op'[a].ws = op[a].ws
         /\ op'[a].seen = op[a].seen
<1> USE DEF Step
<1>1. op'[a] = [op[a] EXCEPT !.at = pc] /\ Others(a)
  BY DEF Others
<1>2. op[a] \in Ops
  OBVIOUS
<1>3. op'[a] \in Ops /\ op'[a].at = pc /\ op'[a].s = op[a].s /\ op'[a].ws = op[a].ws
      /\ op'[a].seen = op[a].seen
  BY <1>1, <1>2 DEF Ops
<1> QED BY <1>1, <1>3

(* A caller that is done lets go of its session.                           *)
LEMMA DoneEffect ==
  ASSUME op \in [Actors -> Ops], NEW a \in Actors, op' = Done(a)
  PROVE  /\ op' \in [Actors -> Ops] /\ Others(a)
         /\ op'[a].at = "" /\ op'[a].s = None
<1>1. Idle \in Ops
  BY DEF Idle, Ops, At, Deeds
<1> QED BY <1>1 DEF Done, Others, Idle

(* A call begins for one caller.                                           *)
LEMMA BeginEffect ==
  ASSUME op \in [Actors -> Ops], NEW a \in Actors, NEW what \in Deeds, NEW pc \in At,
         NEW p \in Places \cup {None}, NEW s \in Sessions \cup {None},
         op' = Begin(a, what, pc, p, s)
  PROVE  /\ op' \in [Actors -> Ops] /\ Others(a)
         /\ op'[a].at = pc /\ op'[a].s = s /\ op'[a].ws = p
<1> DEFINE r == [does |-> what, at |-> pc, ws |-> p, s |-> s, seen |-> None]
<1>1. r \in Ops
  BY DEF Ops
<1>2. op' = [op EXCEPT ![a] = r]
  BY DEF Begin
<1>3. r.at = pc /\ r.s = s /\ r.ws = p
  OBVIOUS
<1> HIDE DEF r
<1> QED BY <1>1, <1>2, <1>3 DEF Others

(* A caller at rest has no session.                                        *)
LEMMA IdleHas ==
  ASSUME NEW a, op[a] = Idle
  PROVE  op[a].at = "" /\ op[a].s = None
<1>1. op[a].at = Idle.at /\ op[a].s = Idle.s
  OBVIOUS
<1> QED BY <1>1, Zenon DEF Idle

----------------------------------------------------------------------------
(* What a step leaves alone.                                               *)

(* A tree that is gone stays gone, and without it no commit is made.       *)
StaysGone(s) ==
  tree[s] = "none" => tree'[s] = "none" /\ (branch[s] # "ahead" => branch'[s] # "ahead")

(* A session in a caller's hands is nobody else's to move or to open, and  *)
(* nobody else puts its tree back.                                         *)
LEMMA ActorFrame ==
  ASSUME IInv, NEW a \in Actors, Others(a), ActorInv(a)',
         \A b \in Actors \ {a} : op[b].at \in Holding =>
            handle'[op[b].s] = handle[op[b].s] /\ home'[op[b].s] = home[op[b].s]
            /\ StaysGone(op[b].s)
  PROVE  \A b \in Actors : ActorInv(b)'
<1> SUFFICES ASSUME NEW b \in Actors \ {a} PROVE ActorInv(b)'
  OBVIOUS
<1>1. ActorInv(b) /\ op'[b] = op[b]
  BY DEF IInv, Others
<1>2. op[b].at \in Holding => handle'[op[b].s] = handle[op[b].s] /\ home'[op[b].s] = home[op[b].s]
                              /\ StaysGone(op[b].s)
  OBVIOUS
<1>3. op[b].at \in {"branch", "prune"} => op[b].at \in Holding
  BY DEF Holding, Leaving
<1> QED BY <1>1, <1>2, <1>3 DEF ActorInv, StaysGone

(* Steps away from the registry that move no session out of a known place  *)
(* keep its invariant.                                                     *)
LEMMA RegistryFrame ==
  ASSUME IInv, NEW a \in Actors, Others(a), UNCHANGED placeVars,
         op[a].at \notin Writing, op'[a].at \notin Writing, stray \subseteq stray',
         \A s \in Sessions \ stray' :
            home'[s] = home[s] \/ home'[s] \notin Places \/ home'[s] \in KnownWorkspaces
  PROVE  ~mixed' => RegistryInv'
<1> SUFFICES ASSUME ~mixed' PROVE RegistryInv'
  OBVIOUS
<1>1. RegistryInv
  BY DEF IInv, placeVars
<1>2. Writers' = Writers /\ \A b \in Writers : op'[b] = op[b]
  BY DEF Writers, Writing, Others
<1>3. \A p \in KnownWorkspaces : p = Default \/ registry[p] # "absent"
  BY <1>1 DEF KnownWorkspaces, Selectable, Entries
<1>4. \A s \in Sessions \ stray' : Live(s)' => home'[s] = Default \/ registry[home'[s]] # "absent"
  BY <1>1, <1>3 DEF RegistryInv, Live
<1> QED BY <1>1, <1>2, <1>4 DEF RegistryInv, placeVars, Live

(* Steps that neither sign nor drop a claim keep its invariant.            *)
LEMMA ClaimFrame ==
  ASSUME IInv, NEW a \in Actors, Others(a), UNCHANGED <<claim, record>>,
         slipped \subseteq slipped',
         op'[a].at \notin {"sign", "root"},
         op[a].at = "unlink" => op[a].s \in slipped' \/ home'[op[a].s] = "gone",
         \A s \in Sessions :
            home'[s] = home[s] \/ (home[s] = None /\ home'[s] # None)
                               \/ (home'[s] = "gone" /\ handle[s] = None)
  PROVE  ClaimInv'
<1>1. ClaimInv /\ WorkspacesAssumption
  BY WorkspacesAssumption DEF IInv
<1>2. ASSUME NEW s \in Sessions, Deleting(s), s \notin slipped', home'[s] # "gone"
      PROVE  Deleting(s)'
  BY <1>2 DEF Deleting, Others, Actors
<1>3. \A b \in Actors : op'[b].at \in {"sign", "root"} => op'[b] = op[b] /\ op[b].at = op'[b].at
  BY DEF Others
<1>4. ASSUME NEW b \in Actors, op'[b].at = "root", op'[b].s \notin slipped', ~Deleting(op[b].s)'
      PROVE  claim'[op'[b].ws] = op'[b].s
  <2>1. op[b].at = "root" /\ op'[b] = op[b]
    BY <1>3, <1>4
  <2>2. op[b].s \in Sessions /\ handle[op[b].s] = b /\ home[op[b].s] \in Places
    BY <2>1 DEF IInv, ActorInv, Holding, Running
  <2>3. PICK s \in Sessions : s = op[b].s /\ s = op'[b].s
    BY <2>1, <2>2
  <2>4. home'[s] # "gone"
    BY <2>2, <2>3, <1>1 DEF WorkspacesAssumption, Actors
  <2>5. ~Deleting(s)'
    BY <1>4, <2>3 DEF Deleting
  <2>6. ~Deleting(op[b].s)
    BY <1>2, <1>4, <2>3, <2>4, <2>5 DEF Deleting
  <2> QED BY <1>1, <1>4, <2>1, <2>6 DEF ClaimInv
<1>5. ASSUME NEW s \in Sessions, record'[s] = "root", Live(s)', s \notin slipped', ~Deleting(s)'
      PROVE  claim'[home'[s]] = s
  <2>1. record[s] = "root" /\ home'[s] \in Places /\ home'[s] # "gone"
    BY <1>5, <1>1 DEF Live, WorkspacesAssumption
  <2>2. home[s] # None
    BY <2>1, <1>1 DEF ClaimInv
  <2>3. home'[s] = home[s] /\ ~Deleting(s)
    BY <2>1, <2>2, <1>2, <1>5
  <2> QED BY <1>1, <2>1, <2>3, <1>5 DEF ClaimInv, Live
<1>6. \A s \in Sessions : home'[s] = None => record'[s] = "none"
  BY <1>1 DEF ClaimInv, WorkspacesAssumption
<1>7. \A b \in Actors : op'[b].at = "sign" => claim'[op'[b].ws] = Unsigned
  BY <1>1, <1>3 DEF ClaimInv
<1>8. \A b, c \in Actors :
        op'[b].at = "sign" /\ op'[c].at = "sign" /\ op'[b].ws = op'[c].ws => b = c
  BY <1>1, <1>3 DEF ClaimInv
<1> QED BY <1>4, <1>5, <1>6, <1>7, <1>8 DEF ClaimInv

(* A file appears, in a place that is known or stray, stays where it is,   *)
(* or goes while nobody has it open; an open file and the tree of its      *)
(* session are its holder's.                                               *)
HomesKept ==
  /\ stray \subseteq stray'
  /\ \A s \in Sessions :
        \/ home'[s] = home[s]
        \/ /\ home[s] = None /\ home'[s] \in Places
           /\ s \in stray' \/ home'[s] \in KnownWorkspaces
        \/ home'[s] = "gone" /\ handle[s] = None

HandlesKept(a) ==
  \A s \in Sessions :
     /\ handle'[s] = handle[s] \/ handle[s] \in {None, a}
     /\ handle[s] = a \/ StaysGone(s)

(* What one caller does leaves the handles and places of the others'       *)
(* sessions alone.                                                         *)
LEMMA HeldElsewhere ==
  ASSUME IInv, NEW a \in Actors, HomesKept, HandlesKept(a)
  PROVE  \A b \in Actors \ {a} : op[b].at \in Holding =>
            handle'[op[b].s] = handle[op[b].s] /\ home'[op[b].s] = home[op[b].s]
            /\ StaysGone(op[b].s)
<1> SUFFICES ASSUME NEW b \in Actors \ {a}, op[b].at \in Holding
             PROVE  handle'[op[b].s] = handle[op[b].s] /\ home'[op[b].s] = home[op[b].s]
                    /\ StaysGone(op[b].s)
  OBVIOUS
<1>1. op[b].s \in Sessions /\ handle[op[b].s] = b /\ home[op[b].s] \in Places
  BY DEF IInv, ActorInv
<1>2. None \notin Places /\ None # b
  BY WorkspacesAssumption DEF WorkspacesAssumption, Actors
<1> QED BY <1>1, <1>2 DEF HomesKept, HandlesKept, StaysGone

(* A caller's step that leaves registry, claims and records alone.         *)
LEMMA CallerStep ==
  ASSUME IInv, NEW a \in Actors, Others(a), Typed', ActorInv(a)', WorkIsKept',
         HomesKept, HandlesKept(a),
         UNCHANGED placeVars, UNCHANGED <<claim, record>>, slipped \subseteq slipped',
         op[a].at \notin Writing, op'[a].at \notin Writing \cup {"sign", "root"},
         op[a].at = "unlink" => op[a].s \in slipped' \/ home'[op[a].s] = "gone"
  PROVE  IInv'
<1>1. \A b \in Actors : ActorInv(b)'
  BY HeldElsewhere, ActorFrame
<1>2. ~mixed' => RegistryInv'
  <2>1. \A s \in Sessions \ stray' :
           home'[s] = home[s] \/ home'[s] \notin Places \/ home'[s] \in KnownWorkspaces
    BY WorkspacesAssumption DEF HomesKept, WorkspacesAssumption
  <2> QED BY <2>1, RegistryFrame DEF HomesKept
<1>3. ClaimInv'
  <2>1. \A s \in Sessions :
           home'[s] = home[s] \/ (home[s] = None /\ home'[s] # None)
                              \/ (home'[s] = "gone" /\ handle[s] = None)
    BY WorkspacesAssumption DEF HomesKept, WorkspacesAssumption
  <2> QED BY <2>1, ClaimFrame
<1> QED BY <1>1, <1>2, <1>3 DEF IInv

----------------------------------------------------------------------------
(* The calls.                                                              *)

(* At the start there is no session, no entry and no claim.                *)
LEMMA InitInv == Init => IInv
<1> SUFFICES ASSUME Init PROVE IInv
  OBVIOUS
<1> USE DEF Init, InitPlaces
<1>1. Idle \in Ops /\ Idle.at = "" /\ Idle.s = None
  <2>1. Idle \in Ops
    BY DEF Idle, Ops, At, Deeds
  <2>2. Idle.at = "" /\ Idle.s = None
    BY Zenon DEF Idle
  <2> QED BY <2>1, <2>2
<1>2. \A a \in Actors : op[a].at = "" /\ op[a].s = None
  BY <1>1
<1>3. [p \in Places |-> "absent"] \in Files
  BY DEF Files, Entry
<1>4. Typed
  BY <1>1, <1>3 DEF Typed
<1>5. \A a \in Actors : ActorInv(a)
  BY <1>2 DEF ActorInv, Holding, Running, Deciding, Leaving, Writing
<1>6. RegistryInv
  <2>1. Writers = {}
    BY <1>2 DEF Writers
  <2>2. \A s \in Sessions : ~Live(s)
    BY WorkspacesAssumption DEF Live, WorkspacesAssumption
  <2> QED BY <1>3, <2>1, <2>2 DEF RegistryInv
<1>7. ClaimInv
  BY <1>2 DEF ClaimInv
<1>8. WorkIsKept
  BY DEF WorkIsKept
<1> QED BY <1>4, <1>5, <1>6, <1>7, <1>8 DEF IInv

(* Register, Unregister and RunWorkspace begin a registry writer.          *)
LEMMA WriterBegins ==
  ASSUME IInv, NEW a \in Actors, NEW p \in Places, op[a] = Idle,
         NEW what \in {"register", "unregister"}, op' = Begin(a, what, "read", p, None),
         UNCHANGED <<placeVars, home, stray, rootVars, handle>>
  PROVE  IInv'
<1>1. op[a].at = "" /\ op[a].s = None
  BY IdleHas
<1>2. /\ op' \in [Actors -> Ops] /\ Others(a)
      /\ op'[a].at = "read" /\ op'[a].s = None
  <2>1. "read" \in At /\ what \in Deeds /\ op \in [Actors -> Ops]
    BY DEF IInv, Typed, At, Placing, Deeds
  <2> QED BY <2>1, BeginEffect
<1>3. Typed'
  BY <1>2 DEF IInv, Typed, placeVars, rootVars
<1>4. ActorInv(a)'
  BY <1>2 DEF ActorInv, Holding, Running, Deciding, Leaving, Writing
<1>5. WorkIsKept'
  BY DEF IInv, WorkIsKept, rootVars
<1>6. HomesKept /\ HandlesKept(a)
  BY DEF HomesKept, HandlesKept, StaysGone, rootVars
<1>7. UNCHANGED <<claim, record, slipped>>
  BY DEF rootVars
<1>8. op[a].at \notin Writing /\ op[a].at # "unlink" /\ op'[a].at \notin Writing \cup {"sign", "root"}
  BY <1>1, <1>2 DEF Writing
<1> QED BY <1>2, <1>3, <1>4, <1>5, <1>6, <1>7, <1>8, CallerStep

(* The server creates a session in a place it knows.                       *)
LEMMA CreateInv ==
  ASSUME IInv, NEW a \in Actors, NEW s \in Sessions, NEW p \in Places, Create(a, s, p),
         UNCHANGED <<rootVars, handle>>
  PROVE  IInv'
<1> USE DEF Create
<1>1. op[a].at = "" /\ op[a].s = None
  BY IdleHas
<1>2. home' \in [Sessions -> Places \cup {None, "gone"}]
  BY DEF IInv, Typed
<1>3. Typed'
  BY <1>2 DEF IInv, Typed, placeVars, rootVars
<1>4. ActorInv(a)'
  BY <1>1 DEF ActorInv, Holding, Running, Deciding, Leaving, Writing
<1>5. WorkIsKept'
  BY DEF IInv, WorkIsKept, rootVars
<1>6. HomesKept /\ HandlesKept(a)
  BY DEF HomesKept, HandlesKept, StaysGone, IInv, Typed, KnownWorkspaces, rootVars
<1> QED BY <1>1, <1>3, <1>4, <1>5, <1>6, CallerStep DEF rootVars, Writing, Others

(* The states a call begins in.                                            *)
LEMMA EntranceIs == \A s : Entrance(s) \in {"why", "probe", "ensure", "work"}
BY DEF Entrance

(* Run, RunSession and Delete open the session's file, which nobody has.   *)
LEMMA HolderBegins ==
  ASSUME IInv, NEW a \in Actors, NEW s \in Sessions, NEW p \in Places, op[a] = Idle,
         NEW what \in Deeds, NEW pc \in {"why", "probe", "ensure", "work", "status", "drop"},
         pc \in Leaving => a \in Threads,
         op' = Begin(a, what, pc, p, s),
         handle[s] = None, handle' = [handle EXCEPT ![s] = a],
         home' = [home EXCEPT ![s] = p], HomesKept,
         UNCHANGED <<placeVars, rootVars>>
  PROVE  IInv'
<1>1. op[a].at = "" /\ op[a].s = None
  BY IdleHas
<1>2. /\ op' \in [Actors -> Ops] /\ Others(a)
      /\ op'[a].at = pc /\ op'[a].s = s /\ op'[a].ws = p
  <2>1. pc \in At /\ op \in [Actors -> Ops]
    BY DEF IInv, Typed, At, Holding, Running, Leaving
  <2> QED BY <2>1, BeginEffect
<1>3. home' \in [Sessions -> Places \cup {None, "gone"}] /\ handle' \in [Sessions -> Actors \cup {None}]
  BY DEF IInv, Typed
<1>4. Typed'
  BY <1>2, <1>3 DEF IInv, Typed, placeVars, rootVars
<1>5. ActorInv(a)'
  <2>1. handle'[s] = a /\ home'[s] = p
    BY DEF IInv, Typed
  <2> QED BY <1>2, <2>1 DEF ActorInv, Deciding, Writing, Placing, Leaving
<1>6. WorkIsKept'
  BY DEF IInv, WorkIsKept, rootVars
<1>7. HandlesKept(a)
  BY DEF HandlesKept, StaysGone, IInv, Typed, rootVars
<1>8. UNCHANGED <<claim, record, slipped>>
  BY DEF rootVars
<1>9. op[a].at \notin Writing /\ op[a].at # "unlink" /\ op'[a].at \notin Writing \cup {"sign", "root"}
  BY <1>1, <1>2 DEF Writing
<1> QED BY <1>2, <1>4, <1>5, <1>6, <1>7, <1>8, <1>9, CallerStep

(* The server opens a session to run it.                                   *)
LEMMA RunInv ==
  ASSUME IInv, NEW a \in Actors, NEW s \in Sessions, Run(a, s)
  PROVE  IInv'
<1> USE DEF Run
<1>1. home' = [home EXCEPT ![s] = home[s]] /\ home[s] \in Places
  BY DEF IInv, Typed, Live
<1>2. HomesKept /\ UNCHANGED placeVars
  BY DEF HomesKept, Placed
<1>3. Entrance(s) \in {"why", "probe", "ensure", "work"} /\ Entrance(s) \notin Leaving
  BY EntranceIs DEF Leaving
<1> QED BY <1>1, <1>2, <1>3, HolderBegins DEF Deeds, Free

(* The command line makes and opens a session.                             *)
LEMMA RunSessionInv ==
  ASSUME IInv, NEW a \in Actors, NEW s \in Sessions, NEW p \in Places, RunSession(a, s, p)
  PROVE  IInv'
<1> USE DEF RunSession
<1>1. HomesKept
  BY DEF HomesKept, IInv, Typed
<1>2. Entrance(s) \in {"why", "probe", "ensure", "work"} /\ Entrance(s) \notin Leaving
  BY EntranceIs DEF Leaving
<1> QED BY <1>1, <1>2, HolderBegins DEF Deeds, Free

(* A deletion opens the session first.                                     *)
LEMMA DeleteInv ==
  ASSUME IInv, NEW a \in Actors, NEW s \in Sessions, Delete(a, s)
  PROVE  IInv'
<1> USE DEF Delete
<1>1. home' = [home EXCEPT ![s] = home[s]] /\ home[s] \in Places
  BY DEF IInv, Typed, Live
<1>2. HomesKept /\ UNCHANGED placeVars
  BY DEF HomesKept, Placed
<1> QED BY <1>1, <1>2, HolderBegins DEF Deeds, Free

(* A scratch session is created in the place of its source.                *)
LEMMA CreateScratchInv ==
  ASSUME IInv, NEW a \in Actors, NEW s \in Sessions, NEW source \in Sessions,
         CreateScratch(a, s, source)
  PROVE  IInv'
<1> USE DEF CreateScratch
<1>1. op[a].at = "" /\ op[a].s = None
  BY IdleHas
<1>2. home[source] \in Places /\ home[source] \in KnownWorkspaces
  BY DEF Live, KnownWorkspaces
<1>3. /\ op' \in [Actors -> Ops] /\ Others(a)
      /\ op'[a].at = "mark" /\ op'[a].s = s
  <2>1. "mark" \in At /\ "scratch" \in Deeds /\ op \in [Actors -> Ops]
    BY DEF IInv, Typed, At, Deeds
  <2> QED BY <1>2, <2>1, BeginEffect
<1>4. home' \in [Sessions -> Places \cup {None, "gone"}]
  BY <1>2 DEF IInv, Typed
<1>5. Typed'
  BY <1>3, <1>4 DEF IInv, Typed, placeVars, rootVars, Placed
<1>6. ActorInv(a)'
  BY <1>3 DEF ActorInv, Holding, Running, Deciding, Leaving, Writing, Placing
<1>7. WorkIsKept'
  BY DEF IInv, WorkIsKept, rootVars
<1>8. HomesKept /\ HandlesKept(a)
  BY <1>2 DEF HomesKept, HandlesKept, StaysGone, IInv, Typed, Placed, rootVars
<1>9. UNCHANGED <<claim, record, slipped>> /\ UNCHANGED placeVars
  BY DEF rootVars, Placed
<1>10. op[a].at \notin Writing /\ op[a].at # "unlink" /\ op'[a].at \notin Writing \cup {"sign", "root"}
  BY <1>1, <1>3 DEF Writing
<1> QED BY <1>3, <1>5, <1>6, <1>7, <1>8, <1>9, <1>10, CallerStep

(* The command line deletes a file that nobody has open.                   *)
LEMMA SessionAdminInv ==
  ASSUME IInv, NEW a \in Actors, NEW s \in Sessions, SessionAdmin(a, s)
  PROVE  IInv'
<1> USE DEF SessionAdmin
<1>1. op[a].at = "" /\ op[a].s = None
  BY IdleHas
<1>2. home' \in [Sessions -> Places \cup {None, "gone"}]
  BY DEF IInv, Typed
<1>3. Typed'
  BY <1>2 DEF IInv, Typed, placeVars, rootVars, Placed
<1>4. ActorInv(a)'
  BY <1>1 DEF ActorInv, Holding, Running, Deciding, Leaving, Writing
<1>5. WorkIsKept'
  BY DEF IInv, WorkIsKept, rootVars
<1>6. HomesKept /\ HandlesKept(a)
  BY DEF HomesKept, HandlesKept, StaysGone, IInv, Typed, Placed, rootVars
<1> QED BY <1>1, <1>3, <1>4, <1>5, <1>6, CallerStep DEF rootVars, Writing, Others, Placed

----------------------------------------------------------------------------
(* The registry writer's steps.                                            *)

(* What every step of a registry writer has in common.                     *)
LEMMA WriterStep ==
  ASSUME IInv, NEW a \in Actors, Others(a), Typed', ~mixed' => RegistryInv',
         op[a].at \in Placing, op'[a].at \in {""} \cup Writing, op'[a].s = None,
         op'[a].at \in Writing => op'[a].seen \in Files,
         UNCHANGED <<home, stray, rootVars, handle>>
  PROVE  IInv'
<1>1. ActorInv(a)'
  BY DEF ActorInv, Holding, Running, Deciding, Leaving, Writing, Placing
<1>2. \A b \in Actors : ActorInv(b)'
  BY <1>1, ActorFrame DEF StaysGone, rootVars
<1>3. ClaimInv'
  <2>1. op'[a].at \notin {"sign", "root"} /\ op[a].at # "unlink"
    BY DEF Placing, Writing
  <2> QED BY <2>1, ClaimFrame DEF rootVars
<1>4. WorkIsKept'
  BY DEF IInv, WorkIsKept, rootVars
<1> QED BY <1>2, <1>3, <1>4 DEF IInv

(* A writer reads a whole file, and what it will write keeps every entry.  *)
LEMMA ReadRegistryInv ==
  ASSUME IInv, NEW a \in Actors, ReadRegistry(a), UNCHANGED <<rootVars, handle>>
  PROVE  IInv'
<1> USE DEF ReadRegistry
<1>1. op[a].at \in Placing /\ op[a].at \notin Writing /\ op[a].s = None /\ op[a] \in Ops
      /\ op \in [Actors -> Ops]
  BY DEF IInv, ActorInv, Placing, Writing, Typed
<1>2. CASE registry = Torn
  <2>1. op' \in [Actors -> Ops] /\ Others(a) /\ op'[a].at = "" /\ op'[a].s = None
    BY <1>1, <1>2, DoneEffect
  <2>2. Typed'
    BY <1>2, <2>1 DEF IInv, Typed, rootVars
  <2>3. ~mixed' => RegistryInv'
    BY <1>1, <1>2, <2>1, RegistryFrame DEF placeVars, Writing
  <2> QED BY <1>1, <2>1, <2>2, <2>3, WriterStep DEF Writing
<1>3. CASE registry # Torn
  <2> DEFINE seen == [registry EXCEPT ![op[a].ws] = After(op[a].does)]
  <2>1. registry \in Files /\ seen \in Files
    BY <1>3 DEF IInv, Typed, Files, Entry, After
  <2>2. op' = [op EXCEPT ![a] = [op[a] EXCEPT !.at = "open", !.seen = seen]]
    BY <1>1, <1>3 DEF Ops
  <2> HIDE DEF seen
  <2>3. op'[a] = [op[a] EXCEPT !.at = "open", !.seen = seen] /\ Others(a)
    BY <1>1, <2>2 DEF Others
  <2>4. op'[a] \in Ops /\ op'[a].at = "open" /\ op'[a].s = None /\ op'[a].seen = seen
    BY <1>1, <2>1, <2>3 DEF Ops, At, Placing, Writing
  <2>5. op' \in [Actors -> Ops]
    BY <1>1, <2>2, <2>3, <2>4
  <2>6. Typed'
    BY <2>5 DEF IInv, Typed, rootVars
  <2>7. ASSUME ~mixed' PROVE RegistryInv'
    <3>1. ~mixed /\ Writers = {} /\ RegistryInv
      BY <1>3, <2>7 DEF IInv
    <3>2. Writers' = {a}
      BY <3>1, <2>3, <2>4 DEF Writers, Others
    <3>3. \A p \in Places : registry[p] # "absent" => seen[p] # "absent"
      BY <2>1 DEF seen, Files, After
    <3> QED BY <3>1, <3>2, <3>3, <2>1, <2>4 DEF RegistryInv, Live
  <2> QED BY <1>1, <2>1, <2>3, <2>4, <2>6, <2>7, WriterStep DEF Writing
<1> QED BY <1>2, <1>3

(* A second writer at the temp file is what "mixed" records.               *)
LEMMA OpenTempInv ==
  ASSUME IInv, NEW a \in Actors, OpenTemp(a), UNCHANGED <<rootVars, handle>>
  PROVE  IInv'
<1> USE DEF OpenTemp
<1>1. op[a].at \in Placing /\ op[a].s = None /\ op[a].seen \in Files /\ op \in [Actors -> Ops]
  BY DEF IInv, ActorInv, Placing, Writing, Typed
<1>2. /\ op' \in [Actors -> Ops] /\ Others(a) /\ op'[a].at = "write" /\ op'[a].s = None
      /\ op'[a].seen = op[a].seen
  <2>1. "write" \in At
    BY DEF At, Placing, Writing
  <2> QED BY <1>1, <2>1, StepEffect
<1>3. Typed'
  BY <1>2 DEF IInv, Typed, rootVars
<1>4. ASSUME ~mixed' PROVE RegistryInv'
  <2>1. RegistryInv /\ Writers = {a}
    BY <1>4 DEF IInv, RegistryInv, Writers
  <2>2. Writers' = {a}
    BY <2>1, <1>2 DEF Writers, Others
  <2> QED BY <1>2, <2>1, <2>2 DEF RegistryInv, Live
<1> QED BY <1>1, <1>2, <1>3, <1>4, WriterStep DEF Writing

(* A lone writer puts all it has read into the temp file.                  *)
LEMMA WriteTempInv ==
  ASSUME IInv, NEW a \in Actors, WriteTemp(a), UNCHANGED <<rootVars, handle>>
  PROVE  IInv'
<1> USE DEF WriteTemp
<1>1. op[a].at \in Placing /\ op[a].s = None /\ op[a].seen \in Files /\ op \in [Actors -> Ops]
  BY DEF IInv, ActorInv, Placing, Writing, Typed
<1>2. /\ op' \in [Actors -> Ops] /\ Others(a) /\ op'[a].at = "replace" /\ op'[a].s = None
      /\ op'[a].seen = op[a].seen
  <2>1. "replace" \in At
    BY DEF At, Placing, Writing
  <2> QED BY <1>1, <2>1, StepEffect
<1>3. Typed'
  BY <1>1, <1>2 DEF IInv, Typed, rootVars
<1>4. ASSUME ~mixed' PROVE RegistryInv'
  <2>1. RegistryInv /\ Writers = {a}
    BY <1>4 DEF IInv, RegistryInv, Writers
  <2>2. temp = Torn /\ temp # None
    BY <2>1, WorkspacesAssumption DEF RegistryInv, WorkspacesAssumption
  <2>3. temp' = op[a].seen /\ registry' = registry
    BY <2>2
  <2>4. Writers' = {a}
    BY <2>1, <1>2 DEF Writers, Others
  <2> QED BY <1>2, <2>1, <2>3, <2>4 DEF RegistryInv, Live
<1> QED BY <1>1, <1>2, <1>3, <1>4, WriterStep DEF Writing

(* The replaced file has every entry the old one had.                      *)
LEMMA ReplaceInv ==
  ASSUME IInv, NEW a \in Actors, Replace(a), UNCHANGED <<rootVars, handle>>
  PROVE  IInv'
<1> USE DEF Replace
<1>1. op[a].at \in Placing /\ op[a].s = None /\ op[a].seen \in Files /\ op \in [Actors -> Ops]
  BY DEF IInv, ActorInv, Placing, Writing, Typed
<1>2. op' \in [Actors -> Ops] /\ Others(a) /\ op'[a].at = "" /\ op'[a].s = None
  BY <1>1, DoneEffect
<1>3. Typed'
  BY <1>2 DEF IInv, Typed, rootVars
<1>4. ASSUME ~mixed' PROVE RegistryInv'
  <2>1. RegistryInv /\ Writers = {a}
    BY <1>4 DEF IInv, RegistryInv, Writers
  <2>2. temp = op[a].seen /\ temp # None
    BY <1>1, <2>1, WorkspacesAssumption DEF RegistryInv, WorkspacesAssumption, Files
  <2>3. registry' = op[a].seen
    BY <2>2
  <2>4. Writers' = {}
    BY <2>1, <1>2 DEF Writers, Others
  <2>5. \A s \in Sessions \ stray : Live(s) => home[s] = Default \/ op[a].seen[home[s]] # "absent"
    BY <2>1 DEF RegistryInv, Live
  <2> QED BY <1>1, <2>3, <2>4, <2>5 DEF RegistryInv, Live
<1> QED BY <1>1, <1>2, <1>3, <1>4, WriterStep DEF Writing

----------------------------------------------------------------------------
(* The steps of a run and of a deletion that decide about claims.          *)

(* What every step of a caller that holds a session has in common.         *)
LEMMA HolderStep ==
  ASSUME IInv, NEW a \in Actors, Others(a), Typed', ActorInv(a)', ClaimInv', WorkIsKept',
         UNCHANGED <<placeVars, home, stray>>, HandlesKept(a),
         op[a].at \notin Writing, op'[a].at \notin Writing
  PROVE  IInv'
<1>1. HomesKept
  BY DEF HomesKept
<1>2. \A b \in Actors : ActorInv(b)'
  BY <1>1, HeldElsewhere, ActorFrame
<1>3. ~mixed' => RegistryInv'
  BY RegistryFrame
<1> QED BY <1>2, <1>3 DEF IInv

(* What a caller that holds a session knows.                               *)
LEMMA HolderHas ==
  ASSUME IInv, NEW a \in Actors, op[a].at \in Holding
  PROVE  /\ op \in [Actors -> Ops] /\ op[a] \in Ops /\ op[a].at \notin Writing \cup {"", "unlink"}
         /\ op[a].s \in Sessions /\ handle[op[a].s] = a
         /\ op[a].ws \in Places /\ home[op[a].s] = op[a].ws
<1>1. op \in [Actors -> Ops] /\ op[a] \in Ops /\ ActorInv(a)
  BY DEF IInv, Typed
<1>2. op[a].at \notin Writing \cup {"", "unlink"}
  BY DEF Holding, Running, Deciding, Leaving, Writing
<1> QED BY <1>1, <1>2 DEF ActorInv

(* Git's answer decides whether the root is taken with a reason.           *)
LEMMA ProbeInv ==
  ASSUME IInv, NEW a \in Actors, Probe(a)
  PROVE  IInv'
<1> USE DEF Probe
<1>1. op[a].at \in Holding
  BY DEF Holding, Running
<1>2. PICK x \in {"why", "root"} : op' = [op EXCEPT ![a].at = "claim", ![a].seen = x]
  <2>1. PICK blocked \in {TRUE} \cup {op[a].ws \notin Repos} :
           op' = [op EXCEPT ![a].at = "claim", ![a].seen = IF blocked THEN "why" ELSE "root"]
    OBVIOUS
  <2>2. CASE blocked
    BY <2>1, <2>2
  <2>3. CASE ~blocked
    BY <2>1, <2>3
  <2> QED BY <2>2, <2>3
<1>3. op' = [op EXCEPT ![a] = [op[a] EXCEPT !.at = "claim", !.seen = x]]
  BY <1>1, <1>2, HolderHas DEF Ops
<1>4. op'[a] = [op[a] EXCEPT !.at = "claim", !.seen = x] /\ Others(a)
  BY <1>1, <1>3, HolderHas DEF Others
<1>5. /\ op'[a] \in Ops /\ op'[a].at = "claim" /\ op'[a].seen = x
      /\ op'[a].s = op[a].s /\ op'[a].ws = op[a].ws
  BY <1>1, <1>4, HolderHas DEF Ops, At, Holding, Running, Deciding
<1>6. op' \in [Actors -> Ops]
  BY <1>1, <1>3, <1>4, <1>5, HolderHas
<1>7. Typed'
  BY <1>6 DEF IInv, Typed, rootVars, placeVars, Placed
<1>8. ActorInv(a)'
  BY <1>1, <1>5, HolderHas DEF ActorInv, Deciding, Leaving, Writing, Placing
<1>9. WorkIsKept' /\ HomesKept /\ HandlesKept(a) /\ UNCHANGED <<claim, record, slipped, placeVars>>
  BY DEF IInv, WorkIsKept, rootVars, HomesKept, HandlesKept, StaysGone, Placed
<1>10. op[a].at \notin Writing /\ op[a].at # "unlink" /\ op'[a].at \notin Writing \cup {"sign", "root"}
  BY <1>5 DEF Writing
<1> QED BY <1>4, <1>7, <1>8, <1>9, <1>10, CallerStep

(* An exclusive create makes at most one claim file.                       *)
LEMMA ClaimStepInv ==
  ASSUME IInv, NEW a \in Actors, Claim(a)
  PROVE  IInv'
<1> USE DEF Claim, CreateClaim
<1>1. op[a].at \in Holding /\ op[a].at \in Deciding
  BY DEF Holding, Running, Deciding
<1>2. PICK pc \in {"sign", "owner"} :
         op' = Step(a, pc) /\ (pc = "sign" <=> claim[op[a].ws] = None)
  OBVIOUS
<1>3. /\ op' \in [Actors -> Ops] /\ Others(a)
      /\ op'[a].at = pc /\ op'[a].s = op[a].s /\ op'[a].ws = op[a].ws
      /\ op'[a].seen = op[a].seen
  <2>1. pc \in At
    BY DEF At, Holding, Running, Deciding
  <2> QED BY <1>1, <1>2, <2>1, HolderHas, StepEffect
<1>4. Typed'
  <2>1. claim' \in [Places -> Sessions \cup {None, Unsigned}]
    BY DEF IInv, Typed
  <2> QED BY <1>3, <2>1 DEF IInv, Typed, placeVars, Placed
<1>5. ActorInv(a)'
  <2>1. op[a].seen \in {"why", "root"}
    BY <1>1 DEF IInv, ActorInv
  <2> QED BY <1>1, <1>3, <2>1, HolderHas DEF ActorInv, Leaving, Writing, Placing
<1>6. ClaimInv'
  <2>1. ClaimInv /\ claim \in [Places -> Sessions \cup {None, Unsigned}]
    BY DEF IInv, Typed
  <2>2. \A s \in Sessions : Deleting(s)' <=> Deleting(s)
    BY <1>3 DEF Deleting, Others, Actors
  <2>3. None # Unsigned /\ None \notin Sessions
    BY WorkspacesAssumption DEF WorkspacesAssumption, Unsigned
  <2>4. \A p \in Places : claim[p] # None => claim'[p] = claim[p]
    BY <2>1
  <2>5. pc = "sign" => claim'[op[a].ws] = Unsigned
    BY <1>1, <1>2, <2>1, HolderHas
  <2>6. \A b \in Actors : op[b].at = "sign" => op[b].ws \in Places /\ claim[op[b].ws] = Unsigned
    BY <2>1 DEF ClaimInv, IInv, ActorInv, Holding, Running, Deciding
  <2>7. \A b \in Actors : op'[b].at = "sign" => claim'[op'[b].ws] = Unsigned
    BY <1>3, <2>3, <2>4, <2>5, <2>6 DEF Others
  <2>8. \A b, c \in Actors :
           op'[b].at = "sign" /\ op'[c].at = "sign" /\ op'[b].ws = op'[c].ws => b = c
    BY <1>2, <1>3, <2>1, <2>3, <2>6 DEF ClaimInv, Others
  <2>9. ASSUME NEW b \in Actors, op'[b].at = "root", op'[b].s \notin slipped',
               ~Deleting(op[b].s)'
        PROVE  claim'[op'[b].ws] = op'[b].s
    <3>1. op'[b] = op[b] /\ op[b].at = "root"
      BY <1>3, <2>9 DEF Others
    <3>2. op[b].s \in Sessions /\ op[b].ws \in Places
      BY <3>1, HolderHas DEF Holding, Running
    <3>3. ~Deleting(op[b].s)
      BY <2>2, <2>9, <3>1, <3>2 DEF Deleting
    <3>4. claim[op[b].ws] = op[b].s
      BY <2>1, <2>9, <3>1, <3>3 DEF ClaimInv
    <3> QED BY <2>3, <2>4, <3>1, <3>2, <3>4
  <2>10. \A s \in Sessions : record'[s] = "root" /\ Live(s)' /\ s \notin slipped' /\ ~Deleting(s)' =>
           claim'[home'[s]] = s
    BY <2>1, <2>2, <2>3, <2>4 DEF ClaimInv, Live
  <2> QED BY <2>1, <2>7, <2>8, <2>9, <2>10 DEF ClaimInv
<1>7. WorkIsKept' /\ HandlesKept(a) /\ UNCHANGED <<placeVars, home, stray>>
  BY DEF IInv, WorkIsKept, HandlesKept, StaysGone, Placed
<1>8. op[a].at \notin Writing /\ op'[a].at \notin Writing
  BY <1>3 DEF Writing
<1> QED BY <1>3, <1>4, <1>5, <1>6, <1>7, <1>8, HolderStep

(* Claims that change hands: a place's claim stays, or its new value does  *)
(* not concern a session that has the root.                                *)
LEMMA ClaimPasses ==
  ASSUME IInv, NEW a \in Actors, Others(a), UNCHANGED home,
         op[a].at \in Holding, op'[a].at # "sign", slipped \subseteq slipped',
         op'[a].s = op[a].s, op'[a].ws = op[a].ws,
         op'[a].at = "root" /\ op[a].s \notin slipped' => claim'[op[a].ws] = op[a].s,
         \A b \in Actors \ {a} : op[b].at = "sign" => claim'[op[b].ws] = claim[op[b].ws],
         \A p \in Places, t \in Sessions : claim[p] = t => claim'[p] = t \/ Deleting(t)',
         \A s \in Sessions : record'[s] = record[s]
            \/ (home[s] # None /\ (record'[s] = "root" => op[a].at = "root" /\ op[a].s = s))
  PROVE  ClaimInv'
<1>1. ClaimInv /\ op[a].s \in Sessions /\ op[a].ws \in Places /\ home[op[a].s] = op[a].ws
      /\ op[a].at # "unlink"
  BY HolderHas DEF IInv
<1>2. \A s \in Sessions : Deleting(s) => Deleting(s)'
  BY <1>1 DEF Deleting, Others, Actors
<1>3. \A b \in Actors : op'[b].at = "sign" => b # a /\ op'[b] = op[b] /\ op[b].at = "sign"
  BY DEF Others
<1>4. \A b \in Actors : op'[b].at = "sign" => claim'[op'[b].ws] = Unsigned
  BY <1>1, <1>3 DEF ClaimInv
<1>5. \A b, c \in Actors :
        op'[b].at = "sign" /\ op'[c].at = "sign" /\ op'[b].ws = op'[c].ws => b = c
  BY <1>1, <1>3 DEF ClaimInv
<1>6. ASSUME NEW b \in Actors, op'[b].at = "root", op'[b].s \notin slipped', ~Deleting(op[b].s)'
      PROVE  claim'[op'[b].ws] = op'[b].s
  <2>1. CASE b = a /\ op[a].s \notin slipped'
    BY <1>6, <2>1
  <2>2. CASE b # a
    <3>1. op'[b] = op[b] /\ op[b].at = "root"
      BY <1>6, <2>2 DEF Others
    <3>2. op[b].s \in Sessions /\ op[b].ws \in Places
      BY <3>1, HolderHas DEF Holding, Running
    <3>3. PICK s \in Sessions : s = op[b].s /\ s = op'[b].s
      BY <3>1, <3>2
    <3>4. ~Deleting(s)'
      BY <1>6, <3>3 DEF Deleting
    <3>5. ~Deleting(s)
      BY <1>2, <3>4
    <3>6. claim[op[b].ws] = s
      BY <1>1, <1>6, <3>1, <3>3, <3>5 DEF ClaimInv, Deleting
    <3> QED BY <3>1, <3>2, <3>3, <3>4, <3>6
  <2> QED BY <1>6, <2>1, <2>2
<1>7. ASSUME NEW s \in Sessions, record'[s] = "root", Live(s)', s \notin slipped', ~Deleting(s)'
      PROVE  claim'[home'[s]] = s
  <2>1. home[s] \in Places /\ s \notin slipped /\ ~Deleting(s)
    BY <1>2, <1>7 DEF Live
  <2>2. claim[home[s]] = s
    <3>1. CASE record[s] = "root"
      BY <1>1, <2>1, <3>1 DEF ClaimInv, Live
    <3>2. CASE record[s] # "root"
      <4>1. op[a].at = "root" /\ op[a].s = s
        BY <1>7, <3>2
      <4>2. claim[op[a].ws] = op[a].s
        BY <1>1, <2>1, <4>1 DEF ClaimInv, Deleting
      <4> QED BY <1>1, <4>1, <4>2
    <3> QED BY <3>1, <3>2
  <2> QED BY <1>7, <2>1, <2>2
<1>8. \A s \in Sessions : home'[s] = None => record'[s] = "none"
  BY <1>1 DEF ClaimInv
<1> QED BY <1>4, <1>5, <1>6, <1>7, <1>8 DEF ClaimInv

(* The signer of a claim is the one that created it.                       *)
LEMMA SignInv ==
  ASSUME IInv, NEW a \in Actors, Sign(a)
  PROVE  IInv'
<1> USE DEF Sign
<1>1. /\ op[a].at \in Holding /\ op[a].seen \in {"why", "root"}
      /\ op[a].s \in Sessions /\ op[a].ws \in Places
  <2>1. op[a].at \in Holding /\ op[a].at \in Deciding
    BY DEF Holding, Running, Deciding
  <2> QED BY <2>1, HolderHas DEF IInv, ActorInv
<1>2. /\ op' \in [Actors -> Ops] /\ Others(a)
      /\ op'[a].at = op[a].seen /\ op'[a].s = op[a].s /\ op'[a].ws = op[a].ws
  <2>1. op[a].seen \in At
    BY <1>1 DEF At, Holding, Running
  <2> QED BY <1>1, <2>1, HolderHas, StepEffect
<1>3. Typed'
  <2>1. claim' \in [Places -> Sessions \cup {None, Unsigned}]
    BY <1>1 DEF IInv, Typed
  <2> QED BY <1>2, <2>1 DEF IInv, Typed, placeVars, Placed
<1>4. ActorInv(a)'
  BY <1>1, <1>2, HolderHas DEF ActorInv, Deciding, Leaving, Writing, Placing
<1>5. ClaimInv'
  <2>1. ClaimInv /\ claim[op[a].ws] = Unsigned
    BY DEF IInv, ClaimInv
  <2>2. claim'[op[a].ws] = op[a].s /\ \A p \in Places : p # op[a].ws => claim'[p] = claim[p]
    BY <1>1 DEF IInv, Typed
  <2>3. Unsigned \notin Sessions
    BY WorkspacesAssumption DEF WorkspacesAssumption, Unsigned
  <2>4. \A b \in Actors \ {a} : op[b].at = "sign" => op[b].ws \in Places /\ op[b].ws # op[a].ws
    BY <2>1, HolderHas DEF ClaimInv, Holding, Running, Deciding
  <2>5. \A b \in Actors \ {a} : op[b].at = "sign" => claim'[op[b].ws] = claim[op[b].ws]
    BY <2>2, <2>4
  <2>6. \A p \in Places, t \in Sessions : claim[p] = t => claim'[p] = t
    BY <2>1, <2>2, <2>3
  <2>7. op'[a].at # "sign"
    BY <1>1, <1>2
  <2> QED BY <1>1, <1>2, <2>2, <2>5, <2>6, <2>7, ClaimPasses
<1>6. WorkIsKept' /\ HandlesKept(a) /\ UNCHANGED <<placeVars, home, stray>>
  BY DEF IInv, WorkIsKept, HandlesKept, StaysGone, Placed
<1>7. op[a].at \notin Writing /\ op'[a].at \notin Writing
  BY <1>1, <1>2 DEF Writing
<1> QED BY <1>2, <1>3, <1>4, <1>5, <1>6, <1>7, HolderStep

(* A reader takes the root if the claim names its session, or has          *)
(* vanished, which slipped records.                                        *)
LEMMA ReadClaimInv ==
  ASSUME IInv, NEW a \in Actors, ReadClaim(a)
  PROVE  IInv'
<1> USE DEF ReadClaim
<1>1. /\ op[a].at \in Holding /\ op[a].seen \in {"why", "root"}
      /\ op[a].s \in Sessions /\ op[a].ws \in Places
  <2>1. op[a].at \in Holding /\ op[a].at \in Deciding
    BY DEF Holding, Running, Deciding
  <2> QED BY <2>1, HolderHas DEF IInv, ActorInv
<1>2. PICK pc \in {"why", "root", "tree"} :
         /\ op' = Step(a, pc)
         /\ pc = "root" => op[a].seen = "root" /\ claim[op[a].ws] \in {None, op[a].s}
  BY <1>1
<1>3. /\ op' \in [Actors -> Ops] /\ Others(a)
      /\ op'[a].at = pc /\ op'[a].s = op[a].s /\ op'[a].ws = op[a].ws
  <2>1. pc \in At
    BY DEF At, Holding, Running
  <2> QED BY <1>1, <1>2, <2>1, HolderHas, StepEffect
<1>4. Typed'
  BY <1>3 DEF IInv, Typed, placeVars, Placed
<1>5. ActorInv(a)'
  BY <1>1, <1>3, HolderHas DEF ActorInv, Holding, Running, Deciding, Leaving, Writing, Placing
<1>6. ClaimInv'
  <2>1. op'[a].at = "root" /\ op[a].s \notin slipped' => claim'[op[a].ws] = op[a].s
    BY <1>2, <1>3
  <2>2. slipped \subseteq slipped'
    OBVIOUS
  <2>3. op'[a].at # "sign"
    BY <1>3
  <2> QED BY <1>1, <1>3, <2>1, <2>2, <2>3, ClaimPasses
<1>7. WorkIsKept' /\ HandlesKept(a) /\ UNCHANGED <<placeVars, home, stray>>
  BY DEF IInv, WorkIsKept, HandlesKept, StaysGone, Placed
<1>8. op[a].at \notin Writing /\ op'[a].at \notin Writing
  BY <1>1, <1>3 DEF Writing
<1> QED BY <1>3, <1>4, <1>5, <1>6, <1>7, <1>8, HolderStep

(* The session records what it was given: the root, the root with a        *)
(* reason, or a tree.                                                      *)
LEMMA SetRecordInv ==
  ASSUME IInv, NEW a \in Actors, SetRecord(a)
  PROVE  IInv'
<1> USE DEF SetRecord
<1>1. op[a].at \in Holding /\ op[a].s \in Sessions /\ op[a].ws \in Places
      /\ home[op[a].s] = op[a].ws
  <2>1. op[a].at \in Holding
    BY DEF Holding, Running
  <2> QED BY <2>1, HolderHas
<1>2. /\ op' \in [Actors -> Ops] /\ Others(a)
      /\ op'[a].at = "work" /\ op'[a].s = op[a].s /\ op'[a].ws = op[a].ws
  <2>1. "work" \in At
    BY DEF At, Holding, Running
  <2> QED BY <1>1, <2>1, HolderHas, StepEffect
<1>3. Typed'
  <2>1. record' \in [Sessions -> {"none", "root", "why", "tree"}]
    BY DEF IInv, Typed
  <2> QED BY <1>2, <2>1 DEF IInv, Typed, placeVars, Placed
<1>4. ActorInv(a)'
  BY <1>1, <1>2, HolderHas DEF ActorInv, Holding, Running, Deciding, Leaving, Writing, Placing
<1>5. ClaimInv'
  <2>1. \A s \in Sessions : record'[s] = record[s]
            \/ (home[s] # None /\ (record'[s] = "root" => op[a].at = "root" /\ op[a].s = s))
    BY <1>1, WorkspacesAssumption DEF IInv, Typed, WorkspacesAssumption
  <2>2. op'[a].at # "sign" /\ op'[a].at # "root"
    BY <1>2
  <2> QED BY <1>1, <1>2, <2>1, <2>2, ClaimPasses
<1>6. WorkIsKept' /\ HandlesKept(a) /\ UNCHANGED <<placeVars, home, stray>>
  BY DEF IInv, WorkIsKept, HandlesKept, StaysGone, Placed
<1>7. op[a].at \notin Writing /\ op'[a].at \notin Writing
  BY <1>2 DEF Writing
<1> QED BY <1>2, <1>3, <1>4, <1>5, <1>6, <1>7, HolderStep

(* A deletion drops the claim of its own session only, stands before its   *)
(* unlink, and closes the file.                                            *)
LEMMA DropClaimInv ==
  ASSUME IInv, NEW a \in Actors, DropClaim(a)
  PROVE  IInv'
<1> USE DEF DropClaim
<1>1. op[a].at \in Holding /\ op[a].s \in Sessions /\ op[a].ws \in Places
      /\ handle[op[a].s] = a /\ a \in Threads
  <2>1. op[a].at \in Holding /\ op[a].at \in Leaving
    BY DEF Holding, Leaving
  <2> QED BY <2>1, HolderHas DEF IInv, ActorInv
<1>2. /\ op' \in [Actors -> Ops] /\ Others(a)
      /\ op'[a].at = "unlink" /\ op'[a].s = op[a].s /\ op'[a].ws = op[a].ws
  <2>1. "unlink" \in At
    BY DEF At
  <2> QED BY <1>1, <2>1, HolderHas, StepEffect
<1>3. Typed'
  <2>1. claim' \in [Places -> Sessions \cup {None, Unsigned}]
    BY DEF IInv, Typed
  <2>2. handle' \in [Sessions -> Actors \cup {None}]
    BY DEF IInv, Typed, Close
  <2> QED BY <1>2, <2>1, <2>2 DEF IInv, Typed, placeVars, Placed
<1>4. ActorInv(a)'
  BY <1>1, <1>2 DEF ActorInv, Holding, Running, Deciding, Leaving, Writing, Placing
<1>5. ClaimInv'
  <2>1. ClaimInv /\ claim \in [Places -> Sessions \cup {None, Unsigned}]
    BY DEF IInv, Typed
  <2>2. Unsigned \notin Sessions
    BY WorkspacesAssumption DEF WorkspacesAssumption, Unsigned
  <2>3. \A b \in Actors \ {a} : op[b].at = "sign" =>
           op[b].ws \in Places /\ claim[op[b].ws] = Unsigned
    BY <2>1, HolderHas DEF ClaimInv, Holding, Running, Deciding
  <2>4. \A p \in Places : claim[p] # op[a].s => claim'[p] = claim[p]
    BY <2>1
  <2>5. \A b \in Actors \ {a} : op[b].at = "sign" => claim'[op[b].ws] = claim[op[b].ws]
    BY <1>1, <2>2, <2>3, <2>4
  <2>6. \A t \in Sessions : t = op[a].s => Deleting(t)'
    BY <1>1, <1>2 DEF Deleting
  <2>7. \A p \in Places, t \in Sessions : claim[p] = t => claim'[p] = t \/ Deleting(t)'
    BY <2>4, <2>6
  <2>8. op'[a].at # "sign" /\ op'[a].at # "root"
    BY <1>2
  <2> QED BY <1>1, <1>2, <2>5, <2>7, <2>8, ClaimPasses
<1>6. WorkIsKept' /\ HandlesKept(a) /\ UNCHANGED <<placeVars, home, stray>>
  BY <1>1 DEF IInv, Typed, WorkIsKept, HandlesKept, StaysGone, Placed, Close
<1>7. op[a].at \notin Writing /\ op'[a].at \notin Writing
  BY <1>2 DEF Writing
<1> QED BY <1>2, <1>3, <1>4, <1>5, <1>6, <1>7, HolderStep

----------------------------------------------------------------------------
(* The other steps of a run and of a deletion.                             *)

(* The caller goes on, with its session open.                              *)
LEMMA HolderGoes ==
  ASSUME IInv, NEW a \in Actors, op[a].at \in Holding,
         NEW pc \in {"added", "work", "branch", "remove", "prune", "drop"},
         pc \in Leaving => a \in Threads,
         op' = Step(a, pc), WorkIsKept',
         tree' \in [Sessions -> {"none", "clean", "dirty"}],
         branch' \in [Sessions -> {"none", "base", "ahead"}],
         pc \in {"branch", "prune"} => tree'[op[a].s] = "none",
         pc = "prune" => branch'[op[a].s] # "ahead",
         \A s \in Sessions \ {op[a].s} : tree'[s] = tree[s] /\ branch'[s] = branch[s],
         UNCHANGED <<home, claim, record, marked, slipped, work, handle>>, Placed
  PROVE  IInv'
<1>1. /\ op' \in [Actors -> Ops] /\ Others(a)
      /\ op'[a].at = pc /\ op'[a].s = op[a].s /\ op'[a].ws = op[a].ws
  <2>1. pc \in At
    BY DEF At, Holding, Running, Leaving
  <2> QED BY <2>1, HolderHas, StepEffect
<1>2. Typed'
  BY <1>1 DEF IInv, Typed, placeVars, Placed
<1>3. ActorInv(a)'
  BY <1>1, HolderHas DEF ActorInv, Holding, Running, Deciding, Writing, Placing
<1>4. HomesKept /\ HandlesKept(a) /\ UNCHANGED <<claim, record, slipped, placeVars>>
  BY HolderHas DEF HomesKept, HandlesKept, StaysGone, Placed
<1>5. op[a].at \notin Writing /\ op[a].at # "unlink" /\ op'[a].at \notin Writing \cup {"sign", "root"}
  BY <1>1, HolderHas DEF Writing
<1> QED BY <1>1, <1>2, <1>3, <1>4, <1>5, CallerStep

(* The call ends, or stands before its unlink, and the file is closed.     *)
LEMMA HolderEnds ==
  ASSUME IInv, NEW a \in Actors, op[a].at \in Holding,
         op' = Done(a) \/ (op' = Step(a, "unlink") /\ a \in Threads),
         Close(op[a].s), UNCHANGED <<home, rootVars>>, Placed
  PROVE  IInv'
<1>1. /\ op' \in [Actors -> Ops] /\ Others(a)
      /\ \/ op'[a].at = "" /\ op'[a].s = None
         \/ op'[a].at = "unlink" /\ op'[a].s = op[a].s /\ a \in Threads
  <2>1. CASE op' = Done(a)
    BY <2>1, HolderHas, DoneEffect
  <2>2. CASE op' = Step(a, "unlink") /\ a \in Threads
    <3>1. "unlink" \in At
      BY DEF At
    <3> QED BY <2>2, <3>1, HolderHas, StepEffect
  <2> QED BY <2>1, <2>2
<1>2. handle' \in [Sessions -> Actors \cup {None}]
  BY DEF Close, IInv, Typed
<1>3. Typed'
  BY <1>1, <1>2 DEF IInv, Typed, placeVars, rootVars, Placed
<1>4. ActorInv(a)'
  BY <1>1, HolderHas DEF ActorInv, Holding, Running, Deciding, Leaving, Writing, Placing
<1>5. WorkIsKept' /\ HomesKept /\ UNCHANGED <<claim, record, slipped, placeVars>>
  BY DEF IInv, WorkIsKept, rootVars, HomesKept, Placed
<1>6. HandlesKept(a)
  BY HolderHas DEF HandlesKept, StaysGone, Close, IInv, Typed, rootVars
<1>7. op[a].at \notin Writing /\ op[a].at # "unlink" /\ op'[a].at \notin Writing \cup {"sign", "root"}
  BY <1>1, HolderHas DEF Writing
<1> QED BY <1>1, <1>3, <1>4, <1>5, <1>6, <1>7, CallerStep

(* A new tree holds no work.                                               *)
LEMMA AddTreeInv ==
  ASSUME IInv, NEW a \in Actors, AddTree(a)
  PROVE  IInv'
<1> USE DEF AddTree
<1>1. op[a].at \in Holding
  BY DEF Holding, Running
<1>2. CASE tree[op[a].s] = "none" /\ branch[op[a].s] = "none"
  <2>1. tree' \in [Sessions -> {"none", "clean", "dirty"}]
        /\ branch' \in [Sessions -> {"none", "base", "ahead"}]
    BY <1>2 DEF IInv, Typed
  <2>2. WorkIsKept'
    BY <1>2 DEF IInv, Typed, WorkIsKept
  <2>3. op' = Step(a, "added") /\ "added" \notin Leaving
    BY <1>2 DEF Leaving
  <2> QED BY <1>1, <1>2, <2>1, <2>2, <2>3, HolderGoes
<1>3. CASE ~(tree[op[a].s] = "none" /\ branch[op[a].s] = "none")
  BY <1>1, <1>3, HolderEnds DEF rootVars
<1> QED BY <1>2, <1>3

(* A tree that is there is reused with what is in it.                      *)
LEMMA EnsureInv ==
  ASSUME IInv, NEW a \in Actors, Ensure(a)
  PROVE  IInv'
<1> USE DEF Ensure
<1>1. op[a].at \in Holding
  BY DEF Holding, Running
<1>2. CASE tree[op[a].s] = "none" /\ branch[op[a].s] = "none"
  BY <1>1, <1>2, HolderEnds DEF rootVars
<1>3. CASE ~(tree[op[a].s] = "none" /\ branch[op[a].s] = "none")
  <2>1. tree' \in [Sessions -> {"none", "clean", "dirty"}]
        /\ branch' \in [Sessions -> {"none", "base", "ahead"}]
    BY <1>3 DEF IInv, Typed
  <2>2. WorkIsKept'
    BY <1>3 DEF IInv, Typed, WorkIsKept
  <2>3. op' = Step(a, "work") /\ "work" \notin Leaving
    BY <1>3 DEF Leaving
  <2> QED BY <1>1, <1>3, <2>1, <2>2, <2>3, HolderGoes
<1> QED BY <1>2, <1>3

(* The end of a run closes its file.                                       *)
LEMMA EndRunInv ==
  ASSUME IInv, NEW a \in Actors, EndRun(a)
  PROVE  IInv'
<1>1. op[a].at \in Holding
  BY DEF EndRun, Holding, Running
<1> QED BY <1>1, HolderEnds DEF EndRun

(* Reading the status of a tree removes nothing yet.                       *)
LEMMA StatusInv ==
  ASSUME IInv, NEW a \in Actors, Status(a)
  PROVE  IInv'
<1> USE DEF Status
<1>1. op[a].at \in Holding /\ a \in Threads
  BY DEF Holding, Leaving, IInv, ActorInv
<1>2. CASE op' = Step(a, "unlink") /\ Close(op[a].s)
  BY <1>1, <1>2, HolderEnds
<1>3. CASE op' = Step(a, IF tree[op[a].s] = "none" THEN "branch" ELSE "remove") /\ UNCHANGED handle
  <2>1. PICK pc \in {"branch", "remove"} :
           op' = Step(a, pc) /\ (pc = "branch" => tree[op[a].s] = "none")
    BY <1>3
  <2>2. WorkIsKept' /\ tree' \in [Sessions -> {"none", "clean", "dirty"}]
        /\ branch' \in [Sessions -> {"none", "base", "ahead"}]
    BY DEF IInv, Typed, WorkIsKept, rootVars
  <2> QED BY <1>1, <1>3, <2>1, <2>2, HolderGoes DEF rootVars
<1> QED BY <1>2, <1>3

(* What git counted: a branch that is about to go is ahead of nothing.     *)
LEMMA CountAheadInv ==
  ASSUME IInv, NEW a \in Actors, CountAhead(a)
  PROVE  IInv'
<1> USE DEF CountAhead
<1>1. op[a].at \in Holding /\ a \in Threads /\ tree[op[a].s] = "none"
  BY DEF Holding, Leaving, IInv, ActorInv
<1>2. PICK pc \in {"prune", "drop"} :
         op' = Step(a, pc) /\ (pc = "prune" => branch[op[a].s] # "ahead")
  BY DEF NothingAhead
<1>3. WorkIsKept' /\ tree' \in [Sessions -> {"none", "clean", "dirty"}]
      /\ branch' \in [Sessions -> {"none", "base", "ahead"}]
  BY DEF IInv, Typed, WorkIsKept, rootVars
<1> QED BY <1>1, <1>2, <1>3, HolderGoes DEF rootVars

(* A branch that goes held no commit.                                      *)
LEMMA DropBranchInv ==
  ASSUME IInv, NEW a \in Actors, DropBranch(a)
  PROVE  IInv'
<1> USE DEF DropBranch
<1>1. op[a].at \in Holding /\ a \in Threads /\ branch[op[a].s] # "ahead"
  BY DEF Holding, Leaving, IInv, ActorInv
<1>2. tree' \in [Sessions -> {"none", "clean", "dirty"}]
      /\ branch' \in [Sessions -> {"none", "base", "ahead"}]
  BY DEF IInv, Typed
<1>3. WorkIsKept'
  BY <1>1 DEF IInv, Typed, WorkIsKept
<1>4. \A s \in Sessions \ {op[a].s} : tree'[s] = tree[s] /\ branch'[s] = branch[s]
  BY DEF IInv, Typed
<1> QED BY <1>1, <1>2, <1>3, <1>4, HolderGoes

(* A tree with changes stays; one without holds no edits.                  *)
LEMMA RemoveTreeInv ==
  ASSUME IInv, NEW a \in Actors, RemoveTree(a)
  PROVE  IInv'
<1> USE DEF RemoveTree
<1>1. op[a].at \in Holding /\ a \in Threads
  BY DEF Holding, Leaving, IInv, ActorInv
<1>2. CASE Refuses(op[a].s)
  BY <1>1, <1>2, HolderEnds DEF rootVars
<1>3. CASE ~Refuses(op[a].s)
  <2>1. tree' \in [Sessions -> {"none", "clean", "dirty"}]
        /\ branch' \in [Sessions -> {"none", "base", "ahead"}]
    BY <1>3 DEF IInv, Typed
  <2>2. WorkIsKept'
    BY <1>3 DEF IInv, Typed, WorkIsKept, Refuses
  <2>3. tree'[op[a].s] = "none" /\ op' = Step(a, "branch")
        /\ \A s \in Sessions \ {op[a].s} : tree'[s] = tree[s] /\ branch'[s] = branch[s]
    BY <1>1, <1>3, HolderHas DEF IInv, Typed
  <2> QED BY <1>1, <1>3, <2>1, <2>2, <2>3, HolderGoes
<1> QED BY <1>2, <1>3

(* The caller has no file open: a scratch copy is marked or taken back, or *)
(* the file of a deleted session is unlinked.                              *)
LEMMA HomeGoes ==
  ASSUME IInv, NEW a \in Actors, op[a].at \in {"mark", "unlink"}, op' = Done(a),
         home' = home \/ (handle[op[a].s] = None /\ home' = [home EXCEPT ![op[a].s] = "gone"]),
         slipped \subseteq slipped',
         op[a].at = "unlink" => op[a].s \in slipped' \/ home'[op[a].s] = "gone",
         UNCHANGED <<claim, record, tree, branch, work, handle>>, Placed
  PROVE  IInv'
<1>1. op \in [Actors -> Ops] /\ op[a].s \in Sessions
  BY DEF IInv, Typed, ActorInv
<1>2. op' \in [Actors -> Ops] /\ Others(a) /\ op'[a].at = "" /\ op'[a].s = None
  BY <1>1, DoneEffect
<1>3. home' \in [Sessions -> Places \cup {None, "gone"}]
  BY DEF IInv, Typed
<1>4. Typed'
  BY <1>2, <1>3 DEF IInv, Typed, placeVars, Placed
<1>5. ActorInv(a)'
  BY <1>2 DEF ActorInv, Holding, Running, Deciding, Leaving, Writing
<1>6. WorkIsKept' /\ HandlesKept(a) /\ UNCHANGED placeVars
  BY DEF IInv, WorkIsKept, HandlesKept, StaysGone, Placed
<1>7. HomesKept
  BY <1>1 DEF HomesKept, IInv, Typed, Placed
<1>8. op[a].at \notin Writing /\ op'[a].at \notin Writing \cup {"sign", "root"}
  BY <1>2 DEF Writing
<1> QED BY <1>2, <1>4, <1>5, <1>6, <1>7, <1>8, CallerStep

(* A new scratch session is marked as one, or removed again.               *)
LEMMA MarkInv ==
  ASSUME IInv, NEW a \in Actors, Mark(a)
  PROVE  IInv'
BY HomeGoes DEF Mark

(* The session file goes after its claim.                                  *)
LEMMA UnlinkInv ==
  ASSUME IInv, NEW a \in Actors, Unlink(a)
  PROVE  IInv'
<1> USE DEF Unlink
<1>1. op[a].s \in Sessions
  BY DEF IInv, ActorInv
<1>2. op[a].s \in slipped' \/ home'[op[a].s] = "gone"
  BY <1>1 DEF IInv, Typed
<1>3. home' = home \/ (handle[op[a].s] = None /\ home' = [home EXCEPT ![op[a].s] = "gone"])
  OBVIOUS
<1>4. slipped \subseteq slipped'
  OBVIOUS
<1> QED BY <1>2, <1>3, <1>4, HomeGoes

----------------------------------------------------------------------------
(* A caller that breaks off, and the user.                                 *)

(* A caller may fail anywhere; what it leaves is recorded in slipped or    *)
(* stays claimed.                                                          *)
LEMMA FailInv ==
  ASSUME IInv, NEW a \in Actors, Fail(a)
  PROVE  IInv'
<1> USE DEF Fail
<1>1. op' \in [Actors -> Ops] /\ Others(a) /\ op'[a].at = "" /\ op'[a].s = None
  BY DoneEffect DEF IInv, Typed
<1>2. handle' \in [Sessions -> Actors \cup {None}]
  BY DEF IInv, Typed
<1>3. Typed'
  BY <1>1, <1>2 DEF IInv, Typed, placeVars, Placed
<1>4. ActorInv(a)'
  BY <1>1 DEF ActorInv, Holding, Running, Deciding, Leaving, Writing
<1>5. WorkIsKept' /\ HomesKept /\ UNCHANGED <<claim, record, placeVars, home, stray>>
  BY DEF IInv, WorkIsKept, HomesKept, Placed
<1>6. HandlesKept(a)
  BY DEF HandlesKept, StaysGone
<1>7. op'[a].at \notin Writing \cup {"sign", "root"}
  BY <1>1 DEF Writing
<1>8. slipped \subseteq slipped' /\ (op[a].at = "unlink" => op[a].s \in slipped')
  OBVIOUS
<1>9. CASE op[a].at \notin Writing
  BY <1>1, <1>3, <1>4, <1>5, <1>6, <1>7, <1>8, <1>9, CallerStep
<1>10. CASE op[a].at \in Writing
  <2>1. \A b \in Actors : ActorInv(b)'
    BY <1>1, <1>4, <1>5, <1>6, HeldElsewhere, ActorFrame
  <2>2. ClaimInv'
    BY <1>1, <1>5, <1>7, <1>8, ClaimFrame
  <2>3. ASSUME ~mixed' PROVE RegistryInv'
    <3>1. RegistryInv /\ Writers' \subseteq Writers /\ \A b \in Writers' : op'[b] = op[b]
      BY <1>1, <1>5, <2>3 DEF IInv, placeVars, Writers, Others
    <3> QED BY <1>5, <3>1 DEF RegistryInv, placeVars, Live
  <2> QED BY <1>3, <1>5, <2>1, <2>2, <2>3 DEF IInv
<1> QED BY <1>9, <1>10

(* What every step of the user has in common.                              *)
LEMMA UserStep ==
  ASSUME IInv, Typed', WorkIsKept',
         UNCHANGED <<home, op, claim, record, marked, slipped, handle>>, Placed,
         \A s \in Sessions : StaysGone(s)
  PROVE  IInv'
<1>1. \A a \in Actors : ActorInv(a)'
  BY DEF IInv, ActorInv, StaysGone, Holding, Leaving
<1>2. ClaimInv'
  BY DEF IInv, ClaimInv, Deleting, Live
<1>3. ~mixed' => RegistryInv'
  <2>1. Writers' = Writers
    BY DEF Writers
  <2> QED BY <2>1 DEF IInv, RegistryInv, Live, Placed, placeVars
<1> QED BY <1>1, <1>2, <1>3 DEF IInv

(* The user edits, commits and removes trees.                              *)
LEMMA UserInv ==
  ASSUME IInv, NEW s \in Sessions, Edit(s) \/ Commit(s) \/ UserRemoves(s)
  PROVE  IInv'
<1> USE DEF IInv
<1>1. Typed'
  <2>1. tree' \in [Sessions -> {"none", "clean", "dirty"}]
        /\ branch' \in [Sessions -> {"none", "base", "ahead"}]
    BY DEF Edit, Commit, UserRemoves, Typed
  <2>2. work' \in [Sessions -> SUBSET {"edits", "commits"}]
    BY DEF Edit, Commit, UserRemoves, Typed
  <2>3. UNCHANGED <<home, op, claim, record, handle, registry, temp>>
    BY DEF Edit, Commit, UserRemoves, Placed, placeVars
  <2> QED BY <2>1, <2>2, <2>3 DEF Typed
<1>2. WorkIsKept'
  BY DEF Edit, Commit, UserRemoves, Typed, WorkIsKept
<1>3. UNCHANGED <<home, op, claim, record, marked, slipped, handle>> /\ Placed
  BY DEF Edit, Commit, UserRemoves
<1>4. \A t \in Sessions : StaysGone(t)
  BY DEF Edit, Commit, UserRemoves, Typed, StaysGone
<1> QED BY <1>1, <1>2, <1>3, <1>4, UserStep

----------------------------------------------------------------------------
(* Every call that begins keeps the invariant.                             *)
LEMMA CallsInv ==
  ASSUME IInv, Calls
  PROVE  IInv'
<1>1. ASSUME PlaceCalls, UNCHANGED <<rootVars, handle>> PROVE IInv'
  <2>1. PICK a \in Actors, p \in Places :
           \/ Register(a, p) \/ Unregister(a, p) \/ RunWorkspace(a, p)
           \/ \E s \in Sessions : Create(a, s, p)
    BY <1>1 DEF PlaceCalls
  <2>2. CASE Register(a, p)
    BY <1>1, <2>2, WriterBegins DEF Register
  <2>3. CASE Unregister(a, p)
    BY <1>1, <2>3, WriterBegins DEF Unregister
  <2>4. CASE RunWorkspace(a, p)
    BY <1>1, <2>4, WriterBegins DEF RunWorkspace
  <2>5. CASE \E s \in Sessions : Create(a, s, p)
    BY <1>1, <2>5, CreateInv
  <2> QED BY <2>1, <2>2, <2>3, <2>4, <2>5
<1>2. ASSUME NEW a \in Actors, NEW s \in Sessions,
             \/ Run(a, s) \/ Delete(a, s) \/ SessionAdmin(a, s)
             \/ \E p \in Places : RunSession(a, s, p)
             \/ \E source \in Sessions : CreateScratch(a, s, source)
      PROVE  IInv'
  BY <1>2, RunInv, DeleteInv, SessionAdminInv, RunSessionInv, CreateScratchInv
<1> QED BY <1>1, <1>2 DEF Calls

(* Every step of a call keeps the invariant.                               *)
LEMMA StepsInv ==
  ASSUME IInv, Steps
  PROVE  IInv'
<1>1. ASSUME PlaceSteps, UNCHANGED <<rootVars, handle>> PROVE IInv'
  BY <1>1, ReadRegistryInv, OpenTempInv, WriteTempInv, ReplaceInv DEF PlaceSteps
<1>2. ASSUME NEW a \in Actors,
             \/ Probe(a) \/ Claim(a) \/ Sign(a) \/ ReadClaim(a) \/ AddTree(a) \/ SetRecord(a)
             \/ Ensure(a) \/ EndRun(a)
      PROVE  IInv'
  BY <1>2, ProbeInv, ClaimStepInv, SignInv, ReadClaimInv, AddTreeInv, SetRecordInv,
     EnsureInv, EndRunInv
<1>3. ASSUME NEW a \in Actors,
             \/ Mark(a) \/ DropClaim(a) \/ Status(a) \/ RemoveTree(a)
             \/ CountAhead(a) \/ DropBranch(a) \/ Unlink(a) \/ Fail(a)
      PROVE  IInv'
  BY <1>3, MarkInv, DropClaimInv, StatusInv, RemoveTreeInv, CountAheadInv,
     DropBranchInv, UnlinkInv, FailInv
<1>4. ASSUME NEW s \in Sessions, Edit(s) \/ Commit(s) \/ UserRemoves(s)
      PROVE  IInv'
  BY <1>4, UserInv
<1> QED BY <1>1, <1>2, <1>3, <1>4 DEF Steps

(* Stuttering keeps the invariant.                                         *)
LEMMA StutterInv ==
  ASSUME IInv, UNCHANGED vars
  PROVE  IInv'
<1>1. /\ UNCHANGED <<registry, temp, mixed, home, op, stray, claim, record, tree, branch>>
      /\ UNCHANGED <<marked, slipped, work, handle, calls>>
  BY DEF vars, placeVars, rootVars
<1>2. Typed' /\ WorkIsKept' /\ Placed /\ \A s \in Sessions : StaysGone(s)
  BY <1>1 DEF IInv, Typed, WorkIsKept, Placed, placeVars, StaysGone
<1> QED BY <1>1, <1>2, UserStep

(* The inductive invariant of the workspaces and the work roots: where a   *)
(* caller's session is, what the registry's writer will put in place, and  *)
(* whose name is on a claim, through every call, failure and user action.  *)
THEOREM RootsInvariance == Spec => []IInv
<1>1. IInv /\ [Next]_vars => IInv'
  <2> SUFFICES ASSUME IInv, [Next]_vars PROVE IInv'
    OBVIOUS
  <2>1. CASE Calls
    BY <2>1, CallsInv
  <2>2. CASE Steps
    BY <2>2, StepsInv
  <2>3. CASE UNCHANGED vars
    BY <2>3, StutterInv
  <2> QED BY <2>1, <2>2, <2>3 DEF Next
<1> QED BY InitInv, <1>1, PTL DEF Spec

(* A session whose file exists is found by the service in its place, as    *)
(* long as no two registry writers overlapped and no command line made it  *)
(* in a directory nobody registered.                                       *)
THEOREM NoSessionIsHidden == Spec => []SessionsReachable
<1>1. IInv => SessionsReachable
  <2> SUFFICES ASSUME IInv, NEW s \in Sessions, Live(s), ~mixed, s \notin stray
               PROVE  Owner(s) = home[s]
    BY DEF SessionsReachable
  <2>1. registry \in Files /\ registry # Torn
    BY WorkspacesAssumption DEF IInv, RegistryInv, WorkspacesAssumption, Files
  <2>2. home[s] \in Places /\ (home[s] = Default \/ registry[home[s]] # "absent")
    BY DEF IInv, RegistryInv, Live
  <2>3. home[s] \in KnownWorkspaces
    BY <2>1, <2>2 DEF KnownWorkspaces, Selectable, Entries, Files, Entry
  <2> QED BY <2>3 DEF Owner
<1> QED BY RootsInvariance, <1>1, PTL

(* The root of a workspace belongs to one session at a time: the one its   *)
(* claim names, however runs, deletions and failures interleave.           *)
THEOREM RootBelongsToOne == Spec => []RootHasOneOwner
<1>1. IInv => RootHasOneOwner
  <2> SUFFICES ASSUME IInv, NEW p \in Places, NEW s \in Owners(p)
               PROVE  claim[p] = s
    BY DEF RootHasOneOwner
  <2>1. s \in Sessions /\ home[s] = p /\ s \notin slipped /\ ~Deleting(s)
    BY DEF Owners
  <2>2. CASE record[s] = "root"
    BY <2>1, <2>2 DEF IInv, ClaimInv, Live
  <2>3. CASE \E a \in Actors : op[a].s = s /\ op[a].at = "root"
    <3>1. PICK a \in Actors : op[a].s = s /\ op[a].at = "root"
      BY <2>3
    <3>2. claim[op[a].ws] = s
      BY <2>1, <3>1 DEF IInv, ClaimInv
    <3>3. op[a].ws = p
      BY <2>1, <3>1, HolderHas DEF Holding, Running
    <3> QED BY <3>2, <3>3
  <2> QED BY <2>2, <2>3 DEF Owners
<1> QED BY RootsInvariance, <1>1, PTL

(* Uncommitted changes stay in a session's checkout and commits on its     *)
(* branch until the user removes them, through every run and deletion.     *)
THEOREM NoWorkIsLost == Spec => []WorkIsKept
BY RootsInvariance, PTL DEF IInv
=============================================================================
