----------------------------- MODULE WorkRoots ------------------------------
(***************************************************************************)
(* The root a session works on (avid/services/worktrees.py): the workspace *)
(* itself for the session that claims it, a git worktree on a branch of    *)
(* its own for the others. A run decides it once and records it in the     *)
(* session; a deletion gives it back. Runs and deletions come from the     *)
(* server and from command lines, the user works in the trees at any time, *)
(* and every caller may break off between two steps.                       *)
(*                                                                         *)
(* A tree is clean or holds uncommitted changes; a branch stands at its    *)
(* base or is ahead of it. Changes are what git status lists, and commits  *)
(* those on the branch: files that git ignores and commits on a detached   *)
(* HEAD are neither, and go with the tree. An id is not used again after   *)
(* its deletion.                                                           *)
(***************************************************************************)
EXTENDS Workspaces, Naturals

CONSTANTS
  Repos,     \* the places that are the top level of a git repository
  CallBound  \* model bound: calls made

ASSUME ReposAssumption == Repos \subseteq Places /\ CallBound \in Nat

VARIABLES
  claim,   \* claim[p]: who holds the root of p: None, Unsigned, or a session
  record,  \* the recorded work root: "none" "root" "why" (the root, with a reason) "tree"
  tree,    \* the session's checkout: "none" "clean" "dirty"
  branch,  \* its branch: "none" "base" "ahead"
  handle,  \* who holds the session file open
  marked,  \* sessions marked as scratch conversations
  calls,   \* calls made so far
  slipped, \* history: sessions left with the root and without its claim
  work     \* history: what was done in a session's tree and not undone by the user

rootVars == <<claim, record, tree, branch, marked, slipped, work>>
vars == <<placeVars, home, op, stray, rootVars, handle, calls>>

Unsigned == "unsigned"

(* A run or a deletion of a session is one thread's of the server at a     *)
(* time, and its file one process's. What only reads or marks a session    *)
(* borrows the handle of its run, and waits for its deletion.              *)
Doing(s, what) == \E a \in Threads : op[a].s = s /\ op[a].does = what
Served(s)  == Doing(s, "run") \/ Doing(s, "delete")
Free(a, s) == handle[s] = None /\ (a \in Threads => ~Served(s))
Borrowed(s) == handle[s] \in Threads /\ ~Doing(s, "delete")
Close(s)   == handle' = [handle EXCEPT ![s] = None]
Placed     == UNCHANGED <<placeVars, stray>>

----------------------------------------------------------------------------
(* A run: open the session, resolve() its root, work, close.               *)

(* resolve(): a session without a record decides, a tree is looked after.  *)
Entrance(s) ==
  CASE record[s] = "none" /\ s \in marked    -> "why"
    [] record[s] = "none" /\ s \notin marked -> "probe"
    [] record[s] = "tree"                    -> "ensure"
    [] OTHER                                 -> "work"

Run(a, s) ==
  /\ a \in Threads /\ op[a] = Idle
  /\ Live(s) /\ Owner(s) = home[s] /\ Free(a, s)
  /\ handle' = [handle EXCEPT ![s] = a]
  /\ op' = Begin(a, "run", Entrance(s), home[s], s)
  /\ UNCHANGED <<home, rootVars>> /\ Placed

(* avid --session: the directory at hand is the workspace, registered or   *)
(* not; a session that is not there is created.                            *)
RunSession(a, s, p) ==
  /\ a \in Clis /\ op[a] = Idle
  /\ home[s] \in {None, p} /\ Free(a, s)
  /\ home' = [home EXCEPT ![s] = p]
  /\ stray' = IF home[s] = None /\ p \notin KnownWorkspaces THEN stray \cup {s} ELSE stray
  /\ handle' = [handle EXCEPT ![s] = a]
  /\ op' = Begin(a, "run", Entrance(s), p, s)
  /\ UNCHANGED <<placeVars, rootVars>>

(* _probe(): no repository here, or a git that does not answer in time,    *)
(* leaves the workspace root, with the reason.                             *)
Probe(a) ==
  /\ op[a].at = "probe"
  /\ \E blocked \in {TRUE} \cup {op[a].ws \notin Repos} :
        op' = [op EXCEPT ![a].at = "claim", ![a].seen = IF blocked THEN "why" ELSE "root"]
  /\ UNCHANGED <<home, rootVars, handle>> /\ Placed

(* Mutant: a look whether the claim is there, instead of the create.      *)
CreateClaimShared(a) ==
  /\ op' = Step(a, IF claim[op[a].ws] = None THEN "sign" ELSE "owner")
  /\ UNCHANGED claim

(* The exclusive create is the lock; the name is written after it.         *)
CreateClaim(a) ==
  /\ claim' = IF claim[op[a].ws] = None THEN [claim EXCEPT ![op[a].ws] = Unsigned] ELSE claim
  /\ op' = Step(a, IF claim[op[a].ws] = None THEN "sign" ELSE "owner")

Claim(a) ==
  /\ op[a].at = "claim"
  /\ CreateClaim(a)
  /\ UNCHANGED <<home, record, tree, branch, marked, slipped, work, handle>> /\ Placed

Sign(a) ==
  /\ op[a].at = "sign"
  /\ claim' = [claim EXCEPT ![op[a].ws] = op[a].s]
  /\ op' = Step(a, op[a].seen)
  /\ UNCHANGED <<home, record, tree, branch, marked, slipped, work, handle>> /\ Placed

(* A claim that vanished before it could be read counts as this session's. *)
ReadClaim(a) ==
  LET c == claim[op[a].ws]
  IN /\ op[a].at = "owner"
     /\ op' = Step(a, IF op[a].seen = "why" \/ c \in {None, op[a].s} THEN op[a].seen ELSE "tree")
     /\ slipped' = IF c = None /\ op[a].seen = "root" THEN slipped \cup {op[a].s} ELSE slipped
     /\ UNCHANGED <<home, claim, record, tree, branch, marked, work, handle>> /\ Placed

(* git refuses a branch or a directory that exists already.                *)
AddTree(a) ==
  LET s == op[a].s
  IN /\ op[a].at = "tree"
     /\ IF tree[s] = "none" /\ branch[s] = "none"
        THEN /\ tree' = [tree EXCEPT ![s] = "clean"]
             /\ branch' = [branch EXCEPT ![s] = "base"]
             /\ op' = Step(a, "added")
             /\ UNCHANGED handle
        ELSE /\ op' = Done(a) /\ Close(s)
             /\ UNCHANGED <<tree, branch>>
     /\ UNCHANGED <<home, claim, record, marked, slipped, work>> /\ Placed

SetRecord(a) ==
  /\ op[a].at \in {"root", "why", "added"}
  /\ record' = [record EXCEPT ![op[a].s] = IF op[a].at = "added" THEN "tree" ELSE op[a].at]
  /\ op' = Step(a, "work")
  /\ UNCHANGED <<home, claim, tree, branch, marked, slipped, work, handle>> /\ Placed

(* _ensure(): a checkout that is gone is put back on its branch.           *)
Ensure(a) ==
  LET s == op[a].s
  IN /\ op[a].at = "ensure"
     /\ IF tree[s] = "none" /\ branch[s] = "none"
        THEN op' = Done(a) /\ Close(s) /\ UNCHANGED tree
        ELSE /\ tree' = [tree EXCEPT ![s] = IF @ = "none" THEN "clean" ELSE @]
             /\ op' = Step(a, "work")
             /\ UNCHANGED handle
     /\ UNCHANGED <<home, claim, record, branch, marked, slipped, work>> /\ Placed

EndRun(a) ==
  /\ op[a].at = "work"
  /\ op' = Done(a) /\ Close(op[a].s)
  /\ UNCHANGED <<home, rootVars>> /\ Placed

----------------------------------------------------------------------------
(* create_scratch(): a copy, marked read-only once it is complete. A copy  *)
(* that cannot be completed is deleted, if nobody has it open. Between the *)
(* creation and the mark it is a session like any other, to everybody.     *)

CreateScratch(a, s, source) ==
  /\ a \in Threads /\ op[a] = Idle
  /\ Live(source) /\ Owner(source) = home[source] /\ home[source] \in Selectable
  /\ Free(a, source) \/ Borrowed(source)
  /\ home[s] = None
  /\ home' = [home EXCEPT ![s] = home[source]]
  /\ op' = Begin(a, "scratch", "mark", home[source], s)
  /\ UNCHANGED <<rootVars, handle>> /\ Placed

Mark(a) ==
  LET s == op[a].s
  IN /\ op[a].at = "mark" /\ ~Doing(s, "delete")
     /\ \/ /\ handle[s] = None \/ Borrowed(s)
           /\ Live(s)
           /\ marked' = marked \cup {s}
           /\ UNCHANGED home
        \/ /\ home' = IF handle[s] = None /\ Live(s) THEN [home EXCEPT ![s] = "gone"] ELSE home
           /\ UNCHANGED marked
     /\ op' = Done(a)
     /\ UNCHANGED <<claim, record, tree, branch, slipped, work, handle>> /\ Placed

----------------------------------------------------------------------------
(* SessionService.delete(): release() under the open file, then unlink it. *)

Delete(a, s) ==
  /\ a \in Threads /\ op[a] = Idle
  /\ Live(s) /\ Owner(s) = home[s] /\ Free(a, s)
  /\ handle' = [handle EXCEPT ![s] = a]
  /\ op' = Begin(a, "delete", IF record[s] = "tree" THEN "status" ELSE "drop", home[s], s)
  /\ UNCHANGED <<home, rootVars>> /\ Placed

DropClaim(a) ==
  LET s == op[a].s
  IN /\ op[a].at = "drop"
     /\ claim' = [claim EXCEPT ![op[a].ws] = IF @ = s THEN None ELSE @]
     /\ op' = Step(a, "unlink") /\ Close(s)
     /\ UNCHANGED <<home, record, tree, branch, marked, slipped, work>> /\ Placed

(* Uncommitted changes keep the tree. A status that git does not give is   *)
(* an empty one.                                                           *)
Status(a) ==
  LET s == op[a].s
  IN /\ op[a].at = "status"
     /\ \/ /\ tree[s] = "dirty"
           /\ op' = Step(a, "unlink") /\ Close(s)
        \/ /\ op' = Step(a, IF tree[s] = "none" THEN "branch" ELSE "remove")
           /\ UNCHANGED handle
     /\ UNCHANGED <<home, rootVars>> /\ Placed

(* git worktree remove itself refuses a tree with changes.                 *)
Refuses(s) == tree[s] = "dirty"

RemoveTree(a) ==
  LET s == op[a].s
  IN /\ op[a].at = "remove"
     /\ IF Refuses(s)
        THEN op' = Done(a) /\ Close(s) /\ UNCHANGED tree
        ELSE tree' = [tree EXCEPT ![s] = "none"] /\ op' = Step(a, "branch") /\ UNCHANGED handle
     /\ UNCHANGED <<home, claim, record, branch, marked, slipped, work>> /\ Placed

(* Mutant: no count is a count of nothing.                                 *)
NoneIsZero(s, counted) == counted => branch[s] = "base"

(* _ahead() = 0: git counted the commits, and there is none.               *)
NothingAhead(s, counted) == counted /\ branch[s] = "base"

CountAhead(a) ==
  /\ op[a].at = "branch"
  /\ \E counted \in BOOLEAN :
        op' = Step(a, IF NothingAhead(op[a].s, counted) THEN "prune" ELSE "drop")
  /\ UNCHANGED <<home, rootVars, handle>> /\ Placed

DropBranch(a) ==
  /\ op[a].at = "prune"
  /\ branch' = [branch EXCEPT ![op[a].s] = "none"]
  /\ op' = Step(a, "drop")
  /\ UNCHANGED <<home, claim, record, tree, marked, slipped, work, handle>> /\ Placed

(* The file is locked again for the unlink; who opened it meanwhile keeps  *)
(* the session.                                                            *)
Unlink(a) ==
  LET s == op[a].s
  IN /\ op[a].at = "unlink"
     /\ IF handle[s] = None
        THEN home' = [home EXCEPT ![s] = "gone"] /\ UNCHANGED slipped
        ELSE slipped' = slipped \cup {s} /\ UNCHANGED home
     /\ op' = Done(a)
     /\ UNCHANGED <<claim, record, tree, branch, marked, work, handle>> /\ Placed

(* avid --delete-session unlinks the file and nothing else.                *)
SessionAdmin(a, s) ==
  /\ a \in Clis /\ op[a] = Idle
  /\ Live(s) /\ handle[s] = None
  /\ home' = [home EXCEPT ![s] = "gone"]
  /\ UNCHANGED <<op, rootVars, handle>> /\ Placed

----------------------------------------------------------------------------
(* A crash, or an error that ends the call where it is.                    *)
Fail(a) ==
  /\ op[a] # Idle
  /\ op' = Done(a)
  /\ handle' = [s \in Sessions |-> IF handle[s] = a THEN None ELSE handle[s]]
  /\ slipped' = IF op[a].at = "unlink" THEN slipped \cup {op[a].s} ELSE slipped
  /\ UNCHANGED <<home, claim, record, tree, branch, marked, work>> /\ Placed

(* What is done in a tree, by its runs or by the user, and what the user   *)
(* throws away.                                                            *)
Edit(s) ==
  /\ tree[s] = "clean"
  /\ tree' = [tree EXCEPT ![s] = "dirty"]
  /\ work' = [work EXCEPT ![s] = @ \cup {"edits"}]
  /\ UNCHANGED <<home, op, claim, record, branch, marked, slipped, handle>> /\ Placed

Commit(s) ==
  /\ tree[s] = "dirty" /\ branch[s] # "none"
  /\ tree' = [tree EXCEPT ![s] = "clean"]
  /\ branch' = [branch EXCEPT ![s] = "ahead"]
  /\ work' = [work EXCEPT ![s] = {"commits"}]
  /\ UNCHANGED <<home, op, claim, record, marked, slipped, handle>> /\ Placed

UserRemoves(s) ==
  \/ /\ tree[s] # "none"
     /\ tree' = [tree EXCEPT ![s] = "none"]
     /\ work' = [work EXCEPT ![s] = @ \ {"edits"}]
     /\ UNCHANGED <<home, op, claim, record, branch, marked, slipped, handle>> /\ Placed
  \/ /\ tree[s] = "none" /\ branch[s] # "none"
     /\ branch' = [branch EXCEPT ![s] = "none"]
     /\ work' = [work EXCEPT ![s] = {}]
     /\ UNCHANGED <<home, op, claim, record, tree, marked, slipped, handle>> /\ Placed

Init ==
  /\ InitPlaces
  /\ claim = [p \in Places |-> None]
  /\ record = [s \in Sessions |-> "none"]
  /\ tree = [s \in Sessions |-> "none"]
  /\ branch = [s \in Sessions |-> "none"]
  /\ handle = [s \in Sessions |-> None]
  /\ marked = {}
  /\ slipped = {}
  /\ calls = 0
  /\ work = [s \in Sessions |-> {}]

(* What callers ask for, and how it goes on. CallBound is a model bound.   *)
Calls ==
  \/ PlaceCalls /\ UNCHANGED <<rootVars, handle>>
  \/ \E a \in Actors, s \in Sessions :
        \/ Run(a, s) \/ Delete(a, s) \/ SessionAdmin(a, s)
        \/ \E p \in Places : RunSession(a, s, p)
        \/ \E source \in Sessions : CreateScratch(a, s, source)

Steps ==
  \/ PlaceSteps /\ UNCHANGED <<rootVars, handle>>
  \/ \E a \in Actors :
        \/ Probe(a) \/ Claim(a) \/ Sign(a) \/ ReadClaim(a) \/ AddTree(a) \/ SetRecord(a)
        \/ Ensure(a) \/ EndRun(a) \/ Mark(a) \/ DropClaim(a) \/ Status(a) \/ RemoveTree(a)
        \/ CountAhead(a) \/ DropBranch(a) \/ Unlink(a) \/ Fail(a)
  \/ \E s \in Sessions : Edit(s) \/ Commit(s) \/ UserRemoves(s)

Next ==
  \/ calls < CallBound /\ calls' = calls + 1 /\ Calls
  \/ Steps /\ UNCHANGED calls

Spec == Init /\ [][Next]_vars

----------------------------------------------------------------------------
(* "The workspace root belongs to one session at a time": of the sessions  *)
(* that took the root of a place for themselves, one at most is left,      *)
(* however their runs, deletions and failures interleave. Excepted are     *)
(* sessions that kept the record of a root whose claim is gone: a deletion *)
(* drops the claim before the file, and may not get to the file, and a     *)
(* claim that vanishes between create and read counts as one's own.        *)
Deleting(s) == \E a \in Threads : op[a].s = s /\ op[a].at = "unlink"

Owners(p) ==
  {s \in Sessions : /\ home[s] = p /\ s \notin slipped /\ ~Deleting(s)
                    /\ record[s] = "root" \/ \E a \in Actors : op[a].s = s /\ op[a].at = "root"}

RootHasOneOwner == \A p \in Places : \A s, t \in Owners(p) : s = t

(* What git knows of a session's work stays on disk until the user removes *)
(* it: uncommitted changes in the checkout and commits on the branch,      *)
(* through the deletion of the session, edits made while it runs, a git    *)
(* that does not answer, and trees that are put back. Files that git       *)
(* ignores and commits made on a detached HEAD are not among them.         *)
WorkIsKept ==
  \A s \in Sessions :
     /\ "edits" \in work[s] => tree[s] = "dirty"
     /\ "commits" \in work[s] => branch[s] = "ahead"
=============================================================================
