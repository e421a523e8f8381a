------------------------------ MODULE Security ------------------------------
(***************************************************************************)
(* Tool calls of one run passing the permission gate and, for bash, the    *)
(* sandbox and the process that runs them (avid/security/engine.py,        *)
(* permission.py, action.py and avid/agent/tools/shell.py).  The callers   *)
(* are the run and the subagents that share its ledger: each has its own   *)
(* batch, so their calls are decided and executed side by side.            *)
(***************************************************************************)
EXTENDS ShellFacts, Sandbox

CONSTANTS
  Callers,    \* threads that hold a call: the run, its subagents
  Requests,   \* the calls the model may make
  Starts,     \* how a run may start: root, full access, read-only, how the backend's trial
              \* goes, whether the empty file that covers a mask file could be made
  Sensitive,  \* credential paths
  CallBound   \* calls of one behaviour

\* A run works in a directory that exists.
ASSUME StartsAssumption ==
  \A s \in Starts : s.root \in Existing /\ s.full \in BOOLEAN

\* A command is a sequence of segments, and so is every command in it.
ASSUME RequestsAssumption ==
  \A r \in Requests : r.tool = "bash" =>
    \A c \in {r.command} \cup Nested(r.command) : c.segments \in Seq(Range(c.segments))

VARIABLES
  box,        \* the sandbox specification of the run
  full,       \* the run was started with full access
  ledger,     \* what the run has approved
  call,       \* per caller: the call it is making
  calls,      \* calls made so far
  allowed     \* the requests allowed so far

vars == <<box, full, ledger, call, calls, allowed>>

Idle == [phase |-> "idle"]

Streams == {"stdout", "stderr"}

(***************************************************************************)
(* The facts of a call.                                                    *)
(***************************************************************************)

\* Outside targets a shell command may write; an unproven one keeps them all.
OutsideWriteTargets(command, outside) ==
  LET facts == parse_shell(command)
      Operands(s) == s.args \o s.redirect
      Loose(s) == s.program = "cp" /\ (Len(Operands(s)) < 2 \/ s.option # <<>>)
      Written(s) ==
        Range(s.redirect)
          \cup CASE s.program = "cp" -> {Last(Operands(s))}
                 [] s.program \in {"cat", "echo"} -> {}
                 [] OTHER -> outside
  IN IF facts.uncertain \/ \E s \in facts.segments : Loose(s)
     THEN outside
     ELSE outside \cap UNION {Written(s) : s \in facts.segments}

\* The paths a call names: a file tool's own, or what the raw text of a
\* command looks like.
Targets(request) ==
  IF request.tool = "bash" THEN command_targets(request.command) ELSE {request.path}

IsSensitive(path) == \E s \in Sensitive : Covers(s, path)

\* The blacklist of catastrophic commands, a verdict on the text.
HardDeny(request) == request.tool = "bash" /\ request.damage

\* The first operation of a call: what a grant for it would have to allow.
Access(request) ==
  IF \/ request.tool = "write_file"
     \/ request.tool = "bash" /\ WriteHint(request.command)
  THEN "rw" ELSE "ro"

\* What a yes to a catastrophic command is remembered under.
ReviewKey(request) ==
  IF request.tool = "bash" THEN <<"command", request.command>> ELSE <<"path", request.path>>

\* brokerize: the facts the decision is made from.
Action(request, root) ==
  LET outside == {t \in Targets(request) : ~Covers(root, t)}
  IN [writes |-> IF request.tool = "bash" THEN OutsideWriteTargets(request.command, outside)
                 ELSE IF request.tool = "write_file" THEN outside ELSE {},
      credentials |-> {t \in Targets(request) : IsSensitive(t)},
      damage |-> HardDeny(request),
      access |-> Access(request),
      key |-> ReviewKey(request)]

(***************************************************************************)
(* The decision.                                                           *)
(***************************************************************************)

GrantsWritable(action) == {<<"path", t, "rw">> : t \in action.writes}

\* The ledger keys an allow leaves behind for the sandbox.
Grants(action) == {<<"path", t, action.access>> : t \in action.writes}

\* ApprovalLedger.path_grants: a path approved both ways is writable, and a
\* key without an access counts as writable.
PathGrants ==
  LET keys == {k \in ledger : k[1] = "path"}
      Rw(p) == \E k \in keys : k[2] = p /\ (Len(k) = 2 \/ k[Len(k)] = "rw")
  IN {[path |-> k[2], access |-> IF Rw(k[2]) THEN "rw" ELSE "ro"] : k \in keys}

Allow(c, request, extra) ==
  /\ ledger' = ledger \cup extra \cup Grants(Action(request, box.root))
  /\ call' = [call EXCEPT ![c] = [phase |-> "allowed", request |-> request]]
  /\ allowed' = allowed \cup {request}

Deny(c) ==
  /\ call' = [call EXCEPT ![c] = Idle]
  /\ UNCHANGED <<ledger, allowed>>

\* decide: credentials are refused, a catastrophic command is asked about
\* unless full access or the ledger answers, everything else runs.
Gate(c, request) ==
  LET action == Action(request, box.root)
      settled == ~action.damage \/ full \/ action.key \in ledger
  IN /\ call[c] = Idle
     /\ calls < CallBound
     /\ calls' = calls + 1
     /\ \/ action.credentials # {} /\ Deny(c)
        \/ action.credentials = {} /\ settled /\ Allow(c, request, {})
        \/ /\ action.credentials = {} /\ ~settled
           /\ call' = [call EXCEPT ![c] = [phase |-> "asking", request |-> request]]
           /\ UNCHANGED <<ledger, allowed>>
     /\ UNCHANGED <<box, full>>

\* The user's answer; a yes is remembered for the same command.
Answer(c) ==
  /\ call[c].phase = "asking"
  /\ LET request == call[c].request
     IN \/ Allow(c, request, {Action(request, box.root).key})
        \/ Deny(c)
  /\ UNCHANGED <<box, full, calls>>

\* A file tool works on the host itself, in one step.
UseFile(c) ==
  /\ call[c].phase = "allowed"
  /\ call[c].request.tool # "bash"
  /\ call' = [call EXCEPT ![c] = Idle]
  /\ UNCHANGED <<box, full, ledger, calls, allowed>>

(***************************************************************************)
(* The process.                                                            *)
(***************************************************************************)

\* bash: argv is built from the grants of this moment, readers and watchdog
\* start, and the caller waits for the readers.
Spawn(c) ==
  /\ call[c].phase = "allowed"
  /\ call[c].request.tool = "bash"
  /\ call' = [call EXCEPT ![c] =
       [phase |-> "running", request |-> call[c].request, grants |-> PathGrants,
        env |-> ChildEnv(box),
        process |-> "alive", detached |-> FALSE, reading |-> Streams, timer |-> "armed"]]
  /\ UNCHANGED <<box, full, ledger, calls, allowed>>

\* No shell is found, or the process cannot be created: the call returns.
SpawnFails(c) ==
  /\ call[c].phase = "allowed"
  /\ call[c].request.tool = "bash"
  /\ call' = [call EXCEPT ![c] = Idle]
  /\ UNCHANGED <<box, full, ledger, calls, allowed>>

Running(c) == call[c].phase = "running"

\* The process group is killed; what left the group is not.
KillTree(c) == [call[c] EXCEPT !.process = "gone"]

\* A child leaves the process group and keeps the pipes.  In the sandbox it
\* stays in the process namespace, which dies with the command.
Detach(c) ==
  /\ Running(c) /\ call[c].process = "alive" /\ ~Enforced(box)
  /\ call' = [call EXCEPT ![c].detached = TRUE]
  /\ UNCHANGED <<box, full, ledger, calls, allowed>>

Exit(c) ==
  /\ Running(c) /\ call[c].process = "alive"
  /\ call' = [call EXCEPT ![c].process = "gone"]
  /\ UNCHANGED <<box, full, ledger, calls, allowed>>

\* A reader returns: the pipe has no writer left, or the command closed it.
Eof(c, stream) ==
  /\ Running(c) /\ stream \in call[c].reading
  /\ call[c].process = "gone" => ~call[c].detached
  /\ call' = [call EXCEPT ![c].reading = @ \ {stream}]
  /\ UNCHANGED <<box, full, ledger, calls, allowed>>

\* A reader has seen far too much, kills the group and returns.
Flood(c, stream) ==
  /\ Running(c) /\ stream \in call[c].reading
  /\ call' = [call EXCEPT ![c] = [KillTree(c) EXCEPT !.reading = @ \ {stream}]]
  /\ UNCHANGED <<box, full, ledger, calls, allowed>>

DeadlineMarks(c) ==
  /\ Running(c) /\ call[c].timer = "armed"
  /\ call' = [call EXCEPT ![c].timer = "fired"]
  /\ UNCHANGED <<box, full, ledger, calls, allowed>>

\* The watchdog marks the call and kills the process group.
Deadline(c) ==
  /\ Running(c) /\ call[c].timer = "armed"
  /\ call' = [call EXCEPT ![c] = [KillTree(c) EXCEPT !.timer = "fired"]]
  /\ UNCHANGED <<box, full, ledger, calls, allowed>>

\* Both readers are done and the process is reaped: the call returns.
Reap(c) ==
  /\ Running(c) /\ call[c].reading = {} /\ call[c].process = "gone"
  /\ call' = [call EXCEPT ![c] = Idle]
  /\ UNCHANGED <<box, full, ledger, calls, allowed>>

(***************************************************************************)
(* The specification.                                                      *)
(***************************************************************************)

\* build_run_security: full access means no sandbox at all.
Init ==
  /\ \E s \in Starts :
       /\ full = s.full
       /\ box = SandboxSpec(IF full THEN "disabled" ELSE "workspace", s.root,
                            s.readOnly, s.trial, s.empty)
  /\ ledger = {}
  /\ call = [c \in Callers |-> Idle]
  /\ calls = 0
  /\ allowed = {}

Next ==
  \E c \in Callers :
    \/ \E request \in Requests : Gate(c, request)
    \/ Answer(c) \/ UseFile(c) \/ Spawn(c) \/ SpawnFails(c)
    \/ Detach(c) \/ Exit(c) \/ Deadline(c) \/ Reap(c)
    \/ \E stream \in Streams : Eof(c, stream) \/ Flood(c, stream)

\* Threads run, timers fire, a pipe without writers reports its end.
Fairness ==
  \A c \in Callers :
    /\ WF_vars(Deadline(c)) /\ WF_vars(Reap(c))
    /\ \A stream \in Streams : WF_vars(Running(c) /\ call[c].process = "gone" /\ Eof(c, stream))

SecuritySpec == Init /\ [][Next]_vars /\ Fairness

(***************************************************************************)
(* Properties.                                                             *)
(***************************************************************************)

\* Whatever the run has approved so far, and in whatever order, a sandboxed
\* command never finds the contents of a mask directory: only the run's own
\* root is put back when it lies inside one, and a mask inside the workspace
\* holds as well.  The same goes for mask files outside the workspace, as long
\* as the process could make the empty file that covers them; and with or
\* without a working sandbox, short of full access, no variable with the name
\* of a secret reaches the command.
MasksHold ==
  \A c \in Callers :
    /\ Running(c) /\ ~full => \A n \in call[c].env : ~n.secret /\ ~n.withheld
    /\ Running(c) /\ Enforced(box) =>
        LET mounts == Mounts(box, call[c].grants)
            hole(m) == Covers(m, box.root)
        IN /\ \A m \in box.masks \cap Existing, p \in Existing :
                Covers(m, p) /\ ~(hole(m) /\ Covers(box.root, p)) => Sees(mounts, p) \in Hidden
           /\ \A f \in box.files \cap Existing :
                box.empty /\ ~Covers(box.root, f) => Sees(mounts, f) \in Hidden

\* A sandboxed command can change a host path outside the workspace only
\* where an allowed call of the same run, one that reads as a write, named
\* that path or a narrow directory above it; in a read-only run it cannot
\* change the workspace either.
WritesAreGranted ==
  \A c \in Callers, p \in Existing :
    Running(c) /\ Enforced(box) /\ Sees(Mounts(box, call[c].grants), p) = "rw" =>
      \/ Covers(box.root, p) /\ ~box.readOnly
      \/ /\ ~Covers(box.root, p)
         /\ \E r \in allowed, t \in Existing :
              /\ r.tool = "write_file" \/ (r.tool = "bash" /\ WriteHint(r.command))
              /\ t \in Action(r, box.root).writes
              /\ Covers(t, p) /\ ~Covers(t, Home) /\ ~Covers(t, box.root)

\* A command judged safe to run beside others writes nothing by a redirection
\* the parser knows or by a program in program position, wherever in its text
\* they stand.  What it may still write stands where the lexer does not look:
\* a program after a newline, a path behind &> or >|, or behind an option
\* such as git's --output (is_read_only(): "anything unproven returns False"
\* does not hold of these).
SafeIsPure ==
  \A c \in Callers :
    Running(c) /\ is_read_only(call[c].request.command) =>
      \A w \in Touches(call[c].request.command) : ~w.plain

\* A sandboxed command always returns: when it neither exits nor closes its
\* pipes, the watchdog ends it and both readers see the end.
SandboxedReturns ==
  \A c \in Callers : (Running(c) /\ Enforced(box)) ~> ~Running(c)
=============================================================================
