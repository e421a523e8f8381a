# Avid: specifications of the run services, the agent loop and the session store

Avid is a coding agent that runs on the user's machine: a Python process with
an HTTP server, a browser client and one thread per run of the agent. These
modules model the parts of it where threads, clients, processes, crashes and
failures meet: the event stream of a run, its approvals, the life of a session's
runs, the rounds of the agent loop with its tool batches, the session file, the
tree of entries with its checkpoints, the search index, permissions and sandbox,
the wire protocols, and the roots sessions work on. TLC checks them on small
instances; TLAPS proves the safety properties of the event stream, the approvals,
the runs and the inbox of a session, the agent loop, the session file, permissions
and sandbox and the work roots, and most of those of the session tree, for every
value of their constants. Paths below are relative to the repository.

## 1. Inventory

| Component | State | Operations | What is hard |
|---|---|---|---|
| Run event stream, `avid/services/runs.py` | `RunRecord`: events, dropped, durable_index, evicted_upto, next_seq, status | emit, emit_delta, _trim, _finish, _sweep, subscribe, subscribe_async | every `with record.condition` block is atomic, but a replay and a resync take two of them; slow and reconnecting clients; a limit on durable and one on all events |
| Run registry, `runs.py` | `_runs`, `_active`, `_sessions`, `_inboxes`, handle locks | start, submit_input, start_queued, cancel, drain, _run, _finish | one run thread per session against readers, deletions and cancels; a cancel before the run's state exists; a failed open |
| Inbox, `avid/services/inbox.py` | `_items` | add, take_steers, take_for_run, downgrade_steers, restore, remove | inputs claimed by several tabs and by the run; the table itself is reclaimed |
| Approvals, `avid/services/approvals.py` | `_pending`, `_decided`, `_closed` | request, ask, resolve, answer, close | a human's answer races expiry, cancel and the end; several askers share the run's status |
| Agent loop, `avid/agent/run.py`, `stop.py`, `state.py` | round, cancelled, steers, budgets | run, decide, denial_halt | two cancellation checkpoints, one delivery point and two gates |
| Session store, `avid/session/*.py` | the JSONL file, its lock, `SessionState` | create, open, commit, close, repair | crash, power loss, short write, failed fsync |
| Session service, `avid/services/sessions.py` | none of its own | _session, delete, list, fork | borrows the run's handle |
| Session tree, `avid/session/recorder.py`, `projection.py`, `session.py` | entries, branch tips, compaction cursor, plan | append_message, record_compaction, record_plan, create_branch, messages_for_branch | what the next run reads back after a run broke off anywhere |
| Checkpoints and rewind, `avid/agent/checkpoints.py` | snapshots per session | DirCheckpointSink, restore, /rewind | several writes that belong together; snapshots of many turns and branches |
| Context and compaction, `avid/agent/context.py`, `compaction.py` | transcript, compacted, retried | compose, call, compact | cut points, summaries that fail, the retry on overflow |
| Tool execution, `avid/agent/execution.py`, `guards.py`, `hooks.py` | denial streak, counters | execute_batch | parallel tools, denials and cancels in the middle of a batch |
| Subagents, MCP, `avid/agent/tools/` | futures, server processes | run tasks, call a server | children that outlive a timeout, late answers |
| Search index, `avid/index/` | SQLite tables, pending set, worker | notify, reconcile, scan, write, check, rebuild | a worker that lags, crashes and restarts behind files that move and change |
| Permissions, sandbox, `avid/security/`, `agent/tools/shell.py` | ledger of approvals, sandbox specification, process | decide, build_spec, argv_prefix, bash | order of mounts against grants made earlier; commands inside commands; pipes that stay open |
| Providers, `avid/providers/` | accumulator of a stream | build_request, send, stream, parse | interleaved fragments, retries, histories of several models |
| Workspaces, worktrees, migration, `avid/services/` | registry file, claim files, git work trees | register, resolve, release, create_scratch, migrate | server and command line without a common lock; crash between steps |
| HTTP server, `avid/web/`; browser client, `web/src/` | cursor, timeline, phase | SSE, REST | reconnect, reattach, polling |
| CLI, launcher, attachments, settings, prompt, skills | none that is shared | | |

The run thread emits into the event stream through the recorder's message sink
and the observer, blocks in the approval table from inside a tool, takes steers
from the inbox at its gates and writes the session through the handle that
`start()` opened. Request handlers subscribe, answer, submit, claim, cancel and
read. `_sweep()`, called at the end of any run, reclaims records, locks and
inboxes of all sessions.

`PROJECT.json` lists every component with its status and every hazard with the
line where it bites.

## 2. Modules

**RunEvents** models one run's record and its subscribers. `buf` is the record's
buffer with its events at absolute indices (`dropped+1 .. tail`), as
`absolute_index()` counts them. `Emit` is `emit()`: append, trim by the durable
limit, trim by the total limit. Each critical section is an action: `HasGap` and
`Replay` are the two of `_replay_from()`, `EmitResync` and `MarkTail` the two of
a resync, `Snap` and `WakeSync` the two looks of the follow loop, `WakeAsync` a
wakeup of the asyncio variant, `Heartbeat` the unlocked last look at the status.
`YieldReplay` and `YieldFollow` hand over one event, so a client may be slow at
any point, and `Disconnect` may close the generator where it is suspended. `seen`,
`overtaken` and `lagged` are history variables: what the client got or was told
to rebuild, and whether one of the two races below happened to it. Deltas and
transient events are one kind ("lossy"); data of an event is left out.

**Approvals** models the pending table of one run. Askers are the run thread and
a subagent's thread, which may outlive the run since the subagent tool does not
wait for a child that timed out. `request()` and `ask()` are split where the code
releases the condition: registration, status and event, one turn of `_await()`,
the resolved event, the status and the return. `Resolve`, `Answer` and their
`...Again` forms are the handlers with all their answers (accepted, repeat,
conflict, expired). Time is abstract: an item may expire whenever it waits.

**RunLifecycle** models one session: the handle lock, `_active`, the file handle,
the inbox, run threads from the reserved slot to the closed handle, callers of
`cancel()`, readers and a deletion. `at` says where an input is: still in
`submit_input`, queued, claimed, the prompt of a run, taken by a gate, recorded,
or gone in one of the ways the code allows. The agent loop is kept to its
checkpoints, its delivery point and its two gates. Left out: the reference counts
of the lock table, `client_id` idempotence, `drain()`, the `missed` flag.

**SessionStore** models one session file and the processes that open it. A line is
a transaction with a seq range; `Good` is what parsing and `_validate()` accept.
`open()` is replay and, if needed, the atomic repair; `commit()` is write, fsync
and apply. A fragment may end in text or inside a UTF-8 character: the first is
repaired, on the second `read_text()` raises (`Opens`). Short writes, failed rollbacks and failed fsyncs are steps, so are the
death of a process (external) and of the machine (external: unsynced lines may be
lost from the end, with a fragment left). `spoiled` records that a line the code
disowned may be in the file.

**DurableLog** is what a session store promises, without files: a log of
transactions in which an acknowledged one is never lost and never changes place.
SessionStore implements it (`ImplementsLog`) under the mapping that takes what a
replay of the file would read for the log.

**Transcript** holds the operators on messages that the loop and the session share:
`Valid` is `validate()`, `CutPoint` the cut of a compaction, `Compacted` its result.
**ToolBatch** is `execute_batch()`: segments of calls that may overlap, workers that
ask the guards, run, are denied, meet a gate that raises or find the run cancelled,
and the subagent call, which hands its tasks to children and collects them one
after the other. A child may end late; the future it belongs to is dropped with the
call, so its end cannot become an answer, in the code as in the model. A call of a
tool declared safe may overlap even when its arguments are malformed. **AgentLoop** extends both with the rounds of `Run.run()`:
prompt hook, checkpoint, delivery of steers, compaction and its retries, the model
call with its one overflow retry, batch, gates, stop hooks, blank answers and
denial halt. Messages carry their role, whether their text is blank, their calls
and the call they answer; size is a count of messages. A session compacted by a
command and one compacted on the way are the same actions with another `onward`.

**SessionTree** is one session over many runs: entries with parents, branch tips, the
compaction cursor and plan of each branch, the work tree and the snapshots. A run
may be broken off anywhere (`BreakOff`), or fail and leave an error entry that no
transcript shows (`Fail`); a `/rewind` may stop between any two of its steps.
`at` is a history variable: for every prompt, each file's content when it was
recorded and whether its first change since went through a snapshot. `torn` and
`drifted` mark the two cases the properties leave out, described below.

**SessionIndex** has session files in two directories (a store and a legacy place),
the rows and entries of the index, the worker's pending set and pass, and the
command line's `check --fix`. `Scan` and `Write` are the two halves of
`_index_one()`, so that the file may change between them. The commit of a message
notifies the index, that of a value (the cursor of a compaction, the usage of a
run) notifies nobody (`silent`). Short writes with their rollback, a failed fsync
whose line stays, crashes, edits in place, migration in one or two steps and
database errors are actions; a rollback that itself fails is left to SessionStore.
All lines are equally long, and `Scan` reads a file in one step.
`StatRace` set to TRUE also lets a file lose a line between a scan and its stat,
which the code cannot see (`touched`).

**ShellFacts** is `command_parse.py` as operators on commands given as trees
(segments, substitutions, script blocks, nested shells). The segments are those of
the shell, and the lexer's are derived from them: a program behind a newline is an
argument to it (`Lex`), and a path may stand behind an operator or an option that
no table names. **Sandbox** is the mount list, with or without the empty file that
covers masked files, and the environment of a child, and **Security** the calls of a run and its subagent
that share a ledger: gate, question, grants, a process or the failure to start one,
two readers and a watchdog.
What bubblewrap makes of a mount list (`Sees`) and what a shell writes when it runs
a command (`Touches`) are external reference definitions that the code's own
judgement is compared with.

**Providers** sends a growing history to one of several routes: three ways to build a
request, retries up to the response's headers, three ways to fold the frames of a
body into a turn. The endpoint sends the fragments of the items of a reply in any
order its protocol allows; a `responses` endpoint may leave out `output_index`, and
then sends its calls one after the other (`Unnumbered`).

**Workspaces** is the registry file with its unlocked read, temp file and replace, and
the lookup of sessions; **WorkRoots** extends it with claims, work trees, runs and
deletions of the server's threads and of command line processes. Every caller may
fail between two steps; the user edits, commits and removes trees at any time.
A scratch session is created before it is marked, by steps between which anybody
may open it, and its source may be at work meanwhile. The tree, the branch and the
claim of a deleted session go in steps of their own.

**RunEventsProofs**, **ApprovalsProofs**, **RunLifecycleProofs**,
**SessionStoreProofs**, **AgentLoopProofs**, **SessionTreeProofs**,
**SecurityProofs** and **WorkRootsProofs** each extend the
module they are named after and hold its theorems (section 4); the `MC*` modules
give the constants values for TLC.

## 3. Runs

| Run | Result | What it shows |
|---|---|---|
| `events` | passes | bookkeeping of the buffer is exact; outside two races no gap goes untold; async streams end informed; a client's cursor never goes back; what is emitted is delivered; streams end |
| `events_gap` | violated | invariant I5 as the comments and a test state it: a replay overtaken by an eviction between its gap check and its copy skips events quietly |
| `approvals` | passes | an accepted or repeated answer is what the tool gets, nothing is allowed without one, "expired" is said only of items that were not listened to; the awaiting status has a waiter; every ask returns |
| `lifecycle` | passes | no open meets an open handle; writes go through an open handle of an existing session; the queue is exact; a cancel that returned stops the next round and ends the run; the slot is handed back |
| `steer_lost` | violated | a steer taken by a gate after a cancel is dropped at the next checkpoint |
| `store` | passes | the file implements DurableLog through every crash, power loss and repair, and memory is what a reopen replays, as far as the file opens |
| `loop` | passes | every request and every prefix handed to a summarizer is valid; an exclusive tool runs alone; no answer contradicts what happened to its call; a run that ends by itself leaves recorded, visible text; a cancelled run ends |
| `index` | passes | rows are those of the lines before the cursor; a session the index is behind on is on its way, but for a summary that waits for the next message; the index catches up; after `check --fix` no row claims to be right that is not |
| `tree` | passes | what the next run reads back is what the last one sent; no branch keeps a summary or a plan of entries it lost; a rewind restores the files of its anchor |
| `security` | passes | masks and environment hold whatever was granted; writes outside the workspace need an approved write; what counts as read-only writes nothing where the lexer looks; a sandboxed command returns |
| `providers` | passes | a closed body yields the reply whatever the order of its fragments; no text is shown twice; requests pair calls and results, and thinking goes back only where it came from |
| `roots` | passes | a session of a known workspace stays reachable; a root has one owner; no uncommitted change `git status` shows and no commit of its branch is deleted with a session |

### What the properties leave out

Where a property names an exception, the code really behaves so:

- `NoSilentGap` (`Undisturbed`): exactly the two races `events_gap` shows.
  `EndsInformedAsync` speaks of `subscribe_async()` only: `subscribe()` reads the
  status once more after releasing the lock (`runs.py:760`) and may return
  without the terminal event.
- Approvals: a subagent's waiter that outlives its run sets the finished record
  back to "running" (`approvals.py:160`); the record is then never reclaimed.
- `ImplementsLog`, `MemoryIsFile` (`spoiled`): after a failed fsync the line stays
  and its seq is used again, and the repair at the next open keeps the line
  nobody was told of; a failed rollback glues the next line to a fragment. That a
  file can be opened is no property: a fragment cut inside a character, which
  `ensure_ascii=False` makes possible, raises `UnicodeDecodeError` where `open()`
  catches `OSError` (`jsonl.py:545`), and again at every later open, though its
  docstring promises to drop a torn last line.
- `AnswersAreTrue`: a hook or a permission check that raises is answered as a failed
  tool (`execution.py:261`), so of "failed" nothing follows.
- `ProjectionIsLive` (`drifted`): `record_compaction()` counts kept messages that
  the projection had made up for calls cut off by a crash.
- `NoForeignSummary` (`torn`): a crash inside `/rewind`, between the move of the tip
  and the deletion of the cursor and the plan (`runs.py:1023`).
- `RewindRestores`: a file whose first change after the anchor was made by a shell
  command, or by the rewind of another branch, has no snapshot.
- `RowsAreTheFile`, `NothingIsForgotten`, `CatchesUp`, `FixHeals`, `touched`: a read
  line was replaced in a way the index cannot tell. That is an edit of a file it had
  not read to the end, any change of an edited file before it is read again, a line
  that is cut by a power loss and written again, and every change of a file that
  holds a line that does not parse. No pass need find these.
- The first three, `outside` and `lost`: an edit, a move, a line whose fsync failed
  and a batch lost to a database error notify nobody. The next start or `check --fix`
  finds them; of a moved file the fix only drops the row, and a second one indexes it.
  A value committed since the last message is read with the next one
  (`SummaryAwaitsMessage`).
- `MasksHold`: without the empty file (`_empty_mask_file()` returned None) masked files
  outside the masked directories are not covered. Its conjunct on the environment
  says little more than the filter does.
- `SafeIsPure`: a command may write and still count as read-only by a program behind a
  newline, which `_lex()` takes for a blank (`cat a`, newline, `rm b`), by a path behind
  `&>` or `>|`, which no table names, or by an option (`git diff --output=f`).
  `is_read_only()` claims to be "provably pure reading", and
  `tests/test_tool_concurrency.py:74` wants no writing command to pass.
- `WorkIsKept`: files git ignores and commits on a detached HEAD go with the tree, since
  `git status` and `rev-list` do not see them (`worktrees.py:248`).
- `WireKeepsPairs` does not ask for the alternation of roles (`anthropic.py:157`) when
  a steer follows results; that thinking goes back to its own route is close to
  the definition of `plan_replay()`.
- `SandboxedReturns`: without an enforced sandbox a child that left its process group
  keeps the pipes open and `reader.join()` (`shell.py:265`) waits for it.
- `TurnIsTheReply`: a body that ends cleanly before its closing frame is taken for
  a whole turn.
- `SessionsReachable` (`mixed`, `stray`): two writers of the registry at once share
  a temp file and no lock, and a command line may make a session in a directory
  nobody registered, which the server does not find.
- `RootHasOneOwner` (`slipped`, "with a reason"): a deletion drops the claim before the file
  and may fail in between, and a claim that vanishes between create and read
  counts as one's own (`worktrees.py:142`); a session whose git did not answer takes
  the root, with a reason, beside its owner. A session deleted on the command
  line (`cli.py:639`) leaves its claim and its tree behind, though
  `sessions.py:246` wants both to go with the session.

### Bounds

`events`: both limits are 2, with two durable events of the run (the terminal
event and resyncs come on top), one lossy event and two connections in all: both
kinds of eviction, a gap at replay and while following, a resync of each kind and
a reconnect all occur. `approvals`: two askers and two items, so that two waits
overlap and one asker outlives the run; one text. `lifecycle`: two runs one after
the other, two inputs in any of the three modes, one reader that reads or deletes
once; `steer_lost` needs one run. `store`: two processes and three transactions
of one or two writes, so that a fragment can be last, in the middle and repaired.
`loop`: two rounds of at most two calls, two workers, two children, one steer, and
two histories to start from, of which one is long enough to be cut. `index`: one
session (a second shares only the queue with it), two directories, two lines and
five changes. `tree`: two branches, one file, five entries (a command
starts only while there is room for its answer), turns of two calls; a
behaviour spends either its two writes or its two compactions, plans and recorded
failures, since files and cursors meet in no definition. `security`: five ways to
start a run, two callers with two calls in all, so that one call's grant is there for the other's
command, and a command of every shape the parser tells apart or misreads.
`providers`: two calls over five routes, one of them without item numbers, a reply
that mixes reasoning, text and two calls, one with a call between two texts and one
of text alone, two fragments each. `roots`: two sessions, a repository and a plain
directory, two threads and a command line with five calls in all; sessions and
threads are interchangeable, which the symmetry set says.
Deadlock is not checked: in each model the bounds, and a system at rest, stop it.

### Fairness

`RunEvents`: weak fairness of each subscriber's own steps, since a generator that
is consumed runs and every wait has a timeout (`STREAM_HEARTBEAT_SECONDS`).
`Approvals`: of each asker's steps, since `_await()` polls and the deadline comes.
`RunLifecycle`: of each thread that is inside a call; model calls and tools end by
their own timeouts. `AgentLoop`: of the run thread and of the workers of a batch,
not of the child agent, which may never end. `SessionIndex`: of the worker, of a
commit under way and of the restart of a server that went down. `Security`: of
the watchdog's timer, of the caller that reaps, and of a reader whose pipe has no
writer left; a command has to do nothing. Nobody has to send, answer, connect,
cancel, finish, sweep or steer. The other modules state no liveness.

## 4. Proofs

Each proof module states an inductive invariant `IInv`, shows that `Init` implies it
and that every action keeps it (a lemma per action, with frame lemmas for what an
action leaves alone), and derives its theorems from it. TLC checked every `IInv` as
an invariant on the bounds of section 3 before it was proved.

| Module | Theorem | States |
|---|---|---|
| RunEventsProofs | `TypeCorrect`, `BufferIsExact`, `GapsAreTold`, `AsyncEndsInformed`, `CursorNeverBack` | `TypeOK`, `BufferExact`, `NoSilentGap`, `EndsInformedAsync`, `CursorAdvances` |
| ApprovalsProofs | `ClientsAreNotMisled`, `StatusIsHonest`, `TableTypeCorrect` | `ClientAndToolAgree`, `AwaitingMeansAsked`, `TypeOK` |
| RunLifecycleProofs | `OpensFindNoHandle`, `RunsWriteThroughHandle`, `OneRunPerSession`, `CancelIsNeverLost`, `InboxIsExact` | `NeverAlreadyOpen`, `WritesHaveHandle`, `OneRunAtATime`, `CancelStopsRounds`, `QueueIsExact` |
| SessionStoreProofs | `FileImplementsLog`, `OpenShowsTheFile`, `StoreTypeCorrect` | `ImplementsLog` (the refinement of DurableLog), `MemoryIsFile`, `TypeOK` |
| AgentLoopProofs | `RequestsAreValid`, `ExclusiveCallsRunAlone`, `AnswersTellTheTruth`, `RunsEndVisibly` | `RequestsValid`, `ExclusiveAlone`, `AnswersAreTrue`, `EndsVisibly` |
| SessionTreeProofs | `SummariesAreOwn`, `RewindAlwaysRestores` | `NoForeignSummary`, `RewindRestores` |
| SecurityProofs | `MasksAlwaysHold`, `WritesAreAlwaysGranted`, `SafeIsAlwaysPure` | `MasksHold`, `WritesAreGranted`, `SafeIsPure` |
| WorkRootsProofs | `NoSessionIsHidden`, `RootBelongsToOne`, `NoWorkIsLost` | `SessionsReachable`, `RootHasOneOwner`, `WorkIsKept` |

The theorems hold for every number of threads, processes, sessions, items and
messages and for every bound. The assumptions on the constants are those of the
modules: limits are natural numbers (`MaxEvents` positive, as `__init__` enforces),
names of different things and the "none" values differ from each other, and a run
starts from a transcript that `validate()` accepts (`LoopAssumption`): the constructor
of `Transcript` raises on any other (`transcript.py:78`), and SessionTree checks that
what a session projects to is one. Security assumes that paths are sequences of names,
that the file system is finite and holds nothing below a path that is masked as a
file (`PathsAssumption`: `_masks()` takes only what `is_file()`), that a run starts in
a directory that exists (`StartsAssumption`), and that a command is a sequence of
segments, at every depth (`RequestsAssumption`). TLC evaluates all of them.

### Event stream

All follow from one inductive invariant, `IInv` (`Invariance`). Its parts:

- `RecordInv`: the buffer is typed, `durable_index` lists exactly the durable
  events, their seqs are consecutive after `evicted_upto`, the limits hold. The
  lemmas `AppendedInv`, `EvictInv`, `TrimDurableInv`, `TrimTotalInv` and `EmitInv`
  show it for the three stages of `emit()`. `BufferExact` alone is not inductive:
  `_trim` needs the index to be ordered and complete before it drops a prefix.
- `QueueInv`, `LocalInv`: the durable events queued for a generator ascend, and
  cursor, `delivered` and `index` are ordered as its control state says.
- `CoverInv`: for an undisturbed client, everything up to the cursor is covered,
  and everything between the cursor and `delivered` is queued or announced by a
  resync at the head of the queue; a follower has everything durable below its
  `index`. This is why `NoSilentGap` survives a yield: what is taken next is the
  next seq.
- `TermInv`, `DoneInv`: once the status is terminal the terminal event is
  buffered, evicted (so the follower is stale) or covered, which is what makes the
  status read in `Snap`'s critical section a safe reason to stop.

Each action is a lemma of its own (`ReplayStep`, `YieldReplayStep`,
`YieldFollowStep`, `SnapshotStep`, ...); `OthersKeep` and `Frame` carry a
subscriber's invariant over the steps of everybody else.

### Approvals

- `HeldInv`, `OwnInv`: a thread in `request()` or `ask()` has an item of its own, in
  the state its place in the code implies. Two waiters never share an item, so what
  one of them makes final is final for its tool alone.
- `ItemInv`: an item that is not decided is untouched; a decided one never changes
  (`SettledInv`), and what every client was told of it is what it was decided as
  (`RepliesInv`). `ClientAndToolAgree` only speaks of items whose tool has returned;
  the invariant has to say the same from the moment of the decision.

### Runs of a session

- `LockInv`: whoever stands where the code holds `session_lock()` holds it.
- `HandleInv`: an open handle belongs to the run in the slot, to a run that has just
  left the slot and still holds the lock, or to the reader with the lock. With a free
  lock and a free slot the session is closed, which is what an opener relies on.
- `CancelInv`: the handshake. `cancel()` sets its flag before it looks for the state,
  the run publishes its state before it looks at the flag; so after both, the state is
  cancelled whichever came first.
- `QInv`, for the inbox: `QueueIsExact` itself with `HeldInv` (what a run has taken at a
  gate or as its prompt is queued nowhere) and `ReservedInv` (a reserved run and the
  thread that reserved it name each other). Without them a restore after a failed open
  could put an input back that someone has used. The filters of `take_steers()` and
  `remove()` are written in closed form (`Only`): the element with n kept ones up to
  it. A few lemmas about counting show that they keep order and lose nothing.

### Session file

- `LockInv`, `NumberInv`: one process has the session open; every line has a number
  that was drawn.
- `DiskInv`: all lines are good, transactions ascend, and every acknowledged one is
  among the lines a power loss spares.
- `ProcInv`: what a process knows of the file at each place in `open()` and `commit()`:
  memory is the replay of the file, or of the file without its last line between write
  and apply; the image of a repair is the file.

`DiskInv` and `ProcInv` hold while `spoiled` is empty. For the refinement each action
is a step of DurableLog or a stutter: with the whole line the transaction appears, the
apply acknowledges it, a power loss may take a tail that was not acknowledged, and
everything else, a repair included, changes nothing a replay reads.

### Agent loop

- `BatchInv`, `ChildInv`: calls of earlier segments are answered and those of later ones
  untouched; answer, `ran` and status of a call agree. One call at most waits for
  children, since it is exclusive, and a child it reports as ended is done. `SegmentsRise`, `SegmentBegins` and
  `ExclusiveSegment` say what `SegmentOf` computes: a call that may not overlap is the
  only one of its segment.
- `LoopInv`: the transcript is valid except between a turn with calls and their
  results, where it is a valid one with that turn appended. Lemmas about the
  operators of Transcript carry it: `ValidSays` (a plain message), `ValidResults` (one
  result for each call, in order), `CutIsSafe` (a compaction cuts where nothing is
  owed), `ValidEarlier` and `ValidCompacted` (both sides of the cut). The validity of
  a prefix follows from that of the whole at a safe boundary only, so the invariant
  also keeps the cut of a compaction under way (`FoldInv`).
- `GateInv`: at a gate, the last message is the assistant's and was recorded, which is
  what makes the ends that add no message visible ones.

### Session tree

- `TreeInv`: every entry hangs on an earlier one, and while a run is at work the tip of
  its branch is the last entry, since nobody else records.
- The chain of a branch is a recursive function. `ChainExists` shows that the recursion
  has a solution, `ChainSet` which entries it runs through, `ChainStays` that it
  does not change when the tree grows; each by the least entry for which it fails.
  `NoForeignSummary` then follows step by step; half way through a `/rewind` the invariant
  has to know that the cursor is gone before the plan is.
- `DiskInv`, `ArmedInv`: one snapshot of a file at each tip, none newer than the last
  entry; a tool writes a file only after its snapshot at the tip.
- `WatchInv` connects the history with the disk, for every entry and file: one that has
  not changed since is as it was, and so is each snapshot taken since; of one that was
  saved before its first change the earliest later snapshot has what it was. That is
  the one `restore()` takes. `RewindInv` says it of the files restored so far.

### Permissions and sandbox

- `BoxInv`, `AskInv`, `LedgerInv`, `RunInv`: the sandbox specification is the one
  `build_spec()` made at the start; only a catastrophic command is asked about, so a
  yes is kept under that command; every path in the ledger was named by a call that
  was allowed, and so was every path a command under way may write.
- The mount list: of the mounts that cover a path the last one decides (`SeesIs`), so a
  group of mounts is shown to decide, or to stay as it is, by what follows it
  (`LaterDecides`, `EarlierStays`). The masks come after the grants, the
  workspace after both and a mask inside it last: hence `MaskedIsHidden`, `FileIsHidden`, and `WritableIsGranted` for the
  grants that `_allowed_grants()` lets through. Paths that cover a common path lie on
  one line (`CoversChain`), which is what the order of mounts relies on.
- The parser: every segment of the text is read as part of one the lexer finds
  (`EverySegmentIsRead`). If the verdict is "read-only", those have programs that read
  and no redirection the table knows (`ReadOnlySegments`), so that nothing is written
  where the lexer looks (`ReadOnlyWritesNothingPlain`), in a command or in one nested in it.

### Work roots

- `ActorInv`: a caller in a run or a deletion holds its session's file, and the session
  stays where it is. A deletion that is about to drop the branch has removed the
  tree before, and has counted no commit that is not in the base.
- `RegistryInv`, while no two writers met: the file parses, at most one writer is
  active, what it is about to put in place keeps all entries, and every session in
  place has an entry or lies in the default place. Reachability alone is not
  inductive: a writer between read and replace decides it.
- `ClaimInv`: a claim that is not signed has one signer at most, and a session that has
  the root, or is about to record it, is the one its claim names.

### What is only model-checked

- Liveness (`EventuallyDelivered`, `StreamsEnd`, `EveryAskReturns`, `CancelEnds`,
  `SlotIsFreed`, `CancelConverges`, `CatchesUp`, `SandboxedReturns`): fairness and
  `ENABLED` are out of the prover's reach.
- `ProjectionIsLive` of SessionTree: projection and repair flatten and filter sequences
  of sequences with the library's folds; what these compute for every input is an
  induction over data that the provers cannot carry out. The same holds of Providers
  (`TurnIsTheReply`, `ShownOnce`, `WireKeepsPairs`), whose turns and requests are such
  flattenings.
- SessionIndex (`RowsAreTheFile`, `NothingIsForgotten`, `FixHeals`). Nothing in principle
  stands against a proof. Its invariant has to say what the scan at hand has read of
  a file that may have changed since, for each kind of change.

## 5. Plan

1. Theorems: `RowsAreTheFile` and `NothingIsForgotten` of SessionIndex (a row is that of
   the lines before the cursor, and what the pass under way has read).
2. *Browser stream client* (`web/src/api/events.ts`, `useRunStream.ts`): cursor,
   reattach, polling, settling, composed with RunEvents. The client neither
   rebuilds on a resync nor settles on a stream that closes without a terminal
   event; the module is to say what the user sees then.
3. *MCP clients*: matching of answers to requests, timeouts, restart of a server
   process. *Shutdown* by `drain()`, with the repositories it closes.

Not modelled: HTTP handlers and schemas, rendering, wire formats and text
processing (prompts, skills, web extraction, search), native dialogs, stored keys
and settings, index queries, CLI parsing. They are thin over the services or keep
no shared state; what they compute is better tested on examples. The files of
keys (`providers/byok.py`) are rewritten without a lock, like the registry.
