------------------------------ MODULE Sandbox ------------------------------
(***************************************************************************)
(* The mount table of one sandboxed command (avid/security/sandbox.py).    *)
(* A path is the sequence of its components.  Every path named here is     *)
(* already resolved: the source resolves masks, grants and targets before  *)
(* it compares them, so symbolic links do not appear.  A mount covers      *)
(* everything at and below its path, and a later mount covers an earlier.  *)
(***************************************************************************)
EXTENDS Sequences, SequencesExt, FiniteSets, Naturals

CONSTANTS
  Home,         \* the host home directory
  MaskDirs,     \* directories hidden from every command
  MaskFiles,    \* files hidden from every command
  AvidHome,     \* the user-level directory of the program
  Store,        \* the session files
  Existing      \* the paths that exist on the host

Covers(base, path) == IsPrefix(base, path)

\* Nothing lies below a file.
ASSUME PathsAssumption ==
  /\ {Home, AvidHome, Store} \cup MaskDirs \cup MaskFiles \cup Existing \subseteq Seq(STRING)
  /\ IsFiniteSet(Existing)
  /\ \A f \in MaskFiles, p \in Existing : Covers(f, p) => p = f

\* The mask directories of a run with this workspace root.
Masks(root) ==
  LET base == IF \E m \in MaskDirs : Covers(m, AvidHome) THEN MaskDirs
              ELSE MaskDirs \cup {AvidHome}
  IN IF Covers(Store, root) \/ \E m \in base : Covers(m, Store) THEN base
     ELSE base \cup {Store}

\* A backend counts once it has really isolated a command: one that is not
\* there, or that fails or hangs in the trial, does not.
ProbeBackend(trial) == trial = "succeeds"

SandboxSpec(policy, root, readOnly, trial, empty) ==
  [policy |-> policy, root |-> root, readOnly |-> readOnly, empty |-> empty,
   available |-> ProbeBackend(trial),
   masks |-> IF policy = "disabled" THEN {} ELSE Masks(root),
   files |-> IF policy = "disabled" THEN {} ELSE MaskFiles]

Enforced(spec) == spec.policy = "workspace" /\ spec.available

\* A writable mount must not stand for a whole subtree nobody approved.
TooWideForRw(spec, path) ==
  \/ Len(path) <= 1
  \/ \E w \in {Home, spec.root} \cup spec.masks \cup spec.files : Covers(path, w)

AllowedGrants(spec, grants) ==
  {g \in grants :
     /\ g.path \in Existing
     /\ \A m \in spec.masks \cup spec.files : ~Covers(m, g.path)
     /\ g.access = "rw" => ~TooWideForRw(spec, g.path)}

Mount(paths, kind) == SetToSeq({[at |-> p, kind |-> kind] : p \in paths \cap Existing})

MountsGrantsLate(spec, grants) ==
  LET inside == {m \in spec.masks : Covers(spec.root, m) /\ m # spec.root}
  IN <<[at |-> <<>>, kind |-> "ro"], [at |-> <<"tmp">>, kind |-> "private"]>>
     \o Mount(spec.masks \ inside, "private") \o Mount(spec.files, "empty")
     \o SetToSeq({[at |-> g.path, kind |-> g.access] : g \in AllowedGrants(spec, grants)})
     \o <<[at |-> spec.root, kind |-> IF spec.readOnly THEN "ro" ELSE "rw"]>>
     \o Mount(inside, "private")

\* argv_prefix: the order is the meaning.  Grants come before masks, the
\* workspace after both, and a mask inside the workspace after that.  A file
\* is covered by an empty one; without it, no file is.
Mounts(spec, grants) ==
  LET inside == {m \in spec.masks : Covers(spec.root, m) /\ m # spec.root}
      allowed == AllowedGrants(spec, grants)
  IN <<[at |-> <<>>, kind |-> "ro"], [at |-> <<"tmp">>, kind |-> "private"]>>
     \o SetToSeq({[at |-> g.path, kind |-> g.access] : g \in allowed})
     \o Mount(spec.masks \ inside, "private")
     \o Mount({f \in spec.files : spec.empty /\ ~Covers(f, spec.root)}, "empty")
     \o <<[at |-> spec.root, kind |-> IF spec.readOnly THEN "ro" ELSE "rw"]>>
     \o Mount(inside, "private")

\* Names of environment variables, by the tables they are in: needed to run a
\* command, marked as a secret, withheld by name.
EnvNames == [needed : BOOLEAN, secret : BOOLEAN, withheld : BOOLEAN]

ScrubbedEnv == {n \in EnvNames : ~n.secret /\ ~n.withheld}
ApplyEnv == {n \in ScrubbedEnv : n.needed}

\* What a child inherits: with full access everything, without a working
\* sandbox whatever does not look like a credential.
ChildEnv(spec) ==
  IF Enforced(spec) THEN ApplyEnv
  ELSE IF spec.policy = "disabled" THEN EnvNames ELSE ScrubbedEnv

\* What a process of the sandbox finds at a path; what it finds at a hidden
\* one is not the host's.
Sees(mounts, path) ==
  mounts[Max({i \in 1..Len(mounts) : Covers(mounts[i].at, path)})].kind
Hidden == {"private", "empty"}
=============================================================================
