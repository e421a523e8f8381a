----------------------------- MODULE Workspaces -----------------------------
(***************************************************************************)
(* The workspaces a store knows (avid/services/workspace_registry.py and   *)
(* workspaces.py) and the sessions that live in them. The service threads  *)
(* of one process and command line processes of their own share the        *)
(* registry file without a lock: a writer reads it, fills the sibling temp *)
(* file and puts that in its place.                                        *)
(*                                                                         *)
(* A workspace is its id; the paths, names and dates of its entry are left *)
(* out. A caller does one thing at a time: op[a] says what and how far.    *)
(***************************************************************************)

CONSTANTS
  Sessions, Places,
  Default,       \* the place the server is bound to, registered or not
  Threads, Clis, \* callers: the server's service threads, command line processes
  Torn,          \* a registry file that does not parse
  None

Entry == {"absent", "listed", "hidden"}

(* A file that does not parse is no list of entries, and what stands for   *)
(* "nothing" is no place, session or caller; the strings "gone" and        *)
(* "unsigned" stand for no place and for nobody.                           *)
ASSUME WorkspacesAssumption ==
  /\ Default \in Places /\ "gone" \notin Places /\ "unsigned" \notin Sessions
  /\ Torn \notin [Places -> Entry]
  /\ None \notin {Torn, "gone", "unsigned"} \cup [Places -> Entry]
  /\ None \notin Sessions \cup Places \cup Threads \cup Clis
  /\ Threads \cap Clis = {}

VARIABLES
  registry, \* the registry file: one entry per place, or Torn
  temp,     \* its sibling temp file
  home,     \* the place a session file lies under; None before, "gone" after
  op,       \* what each caller is doing
  mixed,    \* history: two registry writers overlapped
  stray     \* history: sessions a command line made in a place nobody registered

placeVars == <<registry, temp, mixed>>

Actors == Threads \cup Clis
Idle   == [does |-> "idle", at |-> "", ws |-> None, s |-> None, seen |-> None]

Live(s)       == home[s] \in Places
Step(a, pc)   == [op EXCEPT ![a].at = pc]
Done(a)       == [op EXCEPT ![a] = Idle]
Begin(a, what, pc, p, s) ==
  [op EXCEPT ![a] = [does |-> what, at |-> pc, ws |-> p, s |-> s, seen |-> None]]

----------------------------------------------------------------------------
(* A registry that does not parse is an empty list to a reader and an      *)
(* error to a writer.                                                      *)

Entries(kinds) == IF registry = Torn THEN {} ELSE {p \in Places : registry[p] \in kinds}

(* What a request may name, and what can still hold sessions.              *)
Selectable      == {Default} \cup Entries({"listed"})
KnownWorkspaces == Selectable \cup Entries({"listed", "hidden"})

(* Mutant: a removed place goes from the file.                            *)
AfterForgets(what) == IF what = "register" THEN "listed" ELSE "absent"

(* The entry add() and remove() write: a removed place keeps a tombstone.  *)
After(what) == IF what = "register" THEN "listed" ELSE "hidden"

(* The service registers what it does not list yet and never removes the   *)
(* place it is bound to.                                                   *)
Register(a, p) ==
  /\ a \in Threads /\ op[a] = Idle
  /\ p \notin Selectable
  /\ op' = Begin(a, "register", "read", p, None)
  /\ UNCHANGED <<placeVars, home, stray>>

Unregister(a, p) ==
  /\ a \in Threads /\ op[a] = Idle
  /\ p \in Entries({"listed"}) \ {Default}
  /\ op' = Begin(a, "unregister", "read", p, None)
  /\ UNCHANGED <<placeVars, home, stray>>

(* avid workspace add and remove ask the registry alone.                   *)
RunWorkspace(a, p) ==
  /\ a \in Clis /\ op[a] = Idle
  /\ \/ op' = Begin(a, "register", "read", p, None)
     \/ p \in Entries({"listed", "hidden"}) /\ op' = Begin(a, "unregister", "read", p, None)
  /\ UNCHANGED <<placeVars, home, stray>>

Writers == {a \in Actors : op[a].at \in {"open", "write", "replace"}}

ReadRegistry(a) ==
  /\ op[a].at = "read"
  /\ IF registry = Torn
     THEN op' = Done(a) /\ UNCHANGED mixed
     ELSE /\ op' = [op EXCEPT ![a].at = "open",
                              ![a].seen = [registry EXCEPT ![op[a].ws] = After(op[a].does)]]
          /\ mixed' = (mixed \/ Writers # {})
  /\ UNCHANGED <<registry, temp, home, stray>>

OpenTemp(a) ==
  /\ op[a].at = "open"
  /\ temp' = Torn
  /\ op' = Step(a, "write")
  /\ UNCHANGED <<registry, mixed, home, stray>>

(* A temp file that another writer has put in place meanwhile is the       *)
(* registry, and the text goes there.                                      *)
WriteTemp(a) ==
  /\ op[a].at = "write"
  /\ IF temp = None THEN registry' = op[a].seen /\ UNCHANGED temp
                    ELSE temp' = op[a].seen /\ UNCHANGED registry
  /\ op' = Step(a, "replace")
  /\ UNCHANGED <<mixed, home, stray>>

Replace(a) ==
  /\ op[a].at = "replace"
  /\ registry' = IF temp = None THEN registry ELSE temp
  /\ temp' = None
  /\ op' = Done(a)
  /\ UNCHANGED <<mixed, home, stray>>

----------------------------------------------------------------------------
(* SessionService.create(): a session belongs to the workspace the request *)
(* named, for good.                                                        *)
Create(a, s, p) ==
  /\ a \in Threads /\ op[a] = Idle
  /\ home[s] = None /\ p \in Selectable
  /\ home' = [home EXCEPT ![s] = p]
  /\ UNCHANGED <<placeVars, op, stray>>

(* repo_of_session(): the service finds a session in the places it knows.  *)
Owner(s) == IF home[s] \in KnownWorkspaces THEN home[s] ELSE None

InitPlaces ==
  /\ registry = [p \in Places |-> "absent"]
  /\ temp = None
  /\ home = [s \in Sessions |-> None]
  /\ op = [a \in Actors |-> Idle]
  /\ mixed = FALSE
  /\ stray = {}

PlaceCalls ==
  \E a \in Actors, p \in Places :
     \/ Register(a, p) \/ Unregister(a, p) \/ RunWorkspace(a, p)
     \/ \E s \in Sessions : Create(a, s, p)

PlaceSteps ==
  \E a \in Actors : ReadRegistry(a) \/ OpenTemp(a) \/ WriteTemp(a) \/ Replace(a)

----------------------------------------------------------------------------
(* A session whose file exists is found by the service, in the place it    *)
(* was created in, whatever is registered, removed, registered again or    *)
(* broken off. Two cases are excepted: registry writers that overlapped    *)
(* (the later one writes back what it read, over the other's entry, or     *)
(* puts the other's half-written temp file in place), and a session that a *)
(* command line made in a directory nobody registered.                     *)
SessionsReachable ==
  \A s \in Sessions : Live(s) => Owner(s) = home[s] \/ mixed \/ s \in stray
=============================================================================
