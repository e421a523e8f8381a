---------------------------- MODULE SessionIndex ----------------------------
(***************************************************************************)
(* The search index (avid/index): session files that grow, are edited,     *)
(* move and go, the rows a scan derives from them, the worker that follows *)
(* notifications, the catch-up pass after a start and `index check --fix`. *)
(*                                                                         *)
(* A file is a sequence of committed lines behind its header. A line is    *)
(* an entry, the setting or the deletion of the compaction value, or text  *)
(* that does not parse; each line has an id of its own. Its length in      *)
(* bytes is two, and a fragment left by a crash has one. A session's file  *)
(* has the same name in every directory of the store.                      *)
(***************************************************************************)
EXTENDS Integers, Sequences, FiniteSets, SequencesExt, FiniteSetsExt

CONSTANTS
  Sessions, Dirs,  \* integers: discover() goes through them in order
  LineKinds,       \* the kinds of line a file may hold
  LineBound,       \* model bound: lines of a file
  ChangeBound,     \* model bound: changes made to files
  StatRace         \* whether a file may lose or change a line between a scan and its stat

ASSUME IndexAssumption ==
  /\ Sessions \subseteq Nat /\ Dirs \subseteq Nat /\ Dirs # {}
  /\ LineKinds \subseteq {"say", "sum", "drop", "bad"}
  /\ {LineBound, ChangeBound} \subseteq Nat /\ StatRace \in BOOLEAN

VARIABLES
  files,    \* files[d][s]: the file of session s in directory d
  born,     \* sessions created so far: an id is never used again
  clock,    \* number of changes so far; stamps mtimes and line ids
  writing,  \* sessions whose last line is written and not yet acknowledged
  unsent,   \* commits (and deletions) whose notification is still to come
  silent,   \* sessions whose last commit was of a value, which notifies nobody
  touched,  \* sessions whose read lines were replaced in a way nobody can tell
  outside,  \* sessions changed by someone else, or by a commit that failed to flush
  rows,     \* table sessions
  ents,     \* table entries: pairs of an entry id and the line it points to
  pending,  \* SessionIndexer._pending
  queue,    \* the rest of the pass under way
  found,    \* where the catch-up pass discovered each session
  held,     \* the scan of the session at hand
  worker,   \* "down" "boot" "idle", "pass" a batch, "recon" the catch-up pass,
            \* "checked" down, after check --fix
  lost      \* a database error dropped a batch

fileVars  == <<files, born, clock, writing, unsent, silent, outside, touched>>
tableVars == <<rows, ents>>
vars == <<fileVars, tableVars, pending, queue, found, held, worker, lost>>

NoFile == [lines |-> <<>>, torn |-> FALSE, mtime |-> -1, edited |-> FALSE]
NoRow  == [dir |-> -1, cursor |-> 0, size |-> 0, mtime |-> -1, status |-> "none"]
Idle   == [session |-> -1]
Nowhere == [s \in Sessions |-> -1]

Up == worker \notin {"down", "checked"}

Exists(d, s) == d \in Dirs /\ files[d][s] # NoFile
Homes(s)     == {d \in Dirs : Exists(d, s)}
(* discover(): the first directory that holds a session names its path.    *)
Discover(s) == IF Homes(s) = {} THEN -1 ELSE Min(Homes(s))

Size(f)      == 2 * Len(f.lines) + (IF f.torn THEN 1 ELSE 0)

----------------------------------------------------------------------------
(* scan_file(): the complete lines from a cursor on. A slot of the         *)
(* compaction value is one row, as of its last write; 0 is its id.         *)

SlotWrites(ls, a) == {j \in (a + 1)..Len(ls) : ls[j].kind \in {"sum", "drop"}}

SlotRow(ls, a) ==
  LET j == Max(SlotWrites(ls, a) \cup {0})
  IN IF j > 0 /\ ls[j].kind = "sum" THEN {<<0, j>>} ELSE {}

Entries(ls, a) ==
  {<<ls[j].id, j>> : j \in {k \in (a + 1)..Len(ls) : ls[k].kind = "say"}} \cup SlotRow(ls, a)

Deleted(ls, a) == IF SlotWrites(ls, a) # {} /\ SlotRow(ls, a) = {} THEN {0} ELSE {}

(* What a scan of file f brings, from the cursor of row r or from byte 0.  *)
(* A cursor beyond the end starts over; a file that is gone and a line     *)
(* that does not parse are errors.                                         *)
Start(r, f, full) == IF full \/ 2 * r.cursor > Size(f) THEN 0 ELSE r.cursor

ScanFile(s, d, r, f, full) ==
  LET a == Start(r, f, full)
  IN [session |-> s, dir |-> d, full |-> full \/ 2 * r.cursor > Size(f), upto |-> Len(f.lines),
      error |-> f = NoFile \/ \E j \in (a + 1)..Len(f.lines) : f.lines[j].kind = "bad",
      entries |-> Entries(f.lines, a), deleted |-> Deleted(f.lines, a)]

(* apply_scan() and replace_scan(): rows, deletions and cursor together.   *)
AppendOnly(e, h) == IF h.full THEN h.entries ELSE e \cup h.entries

Applied(e, h) ==
  IF h.full THEN h.entries
  ELSE {x \in e : x[1] \notin h.deleted /\ \A y \in h.entries : y[1] # x[1]} \cup h.entries

(* The rest of _index_one(), from the stat on: f is the file by now.       *)
Rewritten(r, h, f) ==
  /\ r # NoRow /\ ~h.full /\ h.entries = {}
  /\ r.cursor = h.upto /\ r.size = Size(f) /\ r.mtime # f.mtime /\ r.status = "ok"

Same(r, h, f) ==
  /\ r # NoRow /\ ~h.full /\ h.entries = {}
  /\ r.cursor = h.upto /\ r.size = Size(f) /\ r.mtime = f.mtime
  /\ r.dir = h.dir /\ r.status = "ok"

SettledRow(r, h, f) ==
  IF h.error THEN [r EXCEPT !.status = "error", !.dir = h.dir]
  ELSE IF f = NoFile THEN [r EXCEPT !.status = IF r = NoRow THEN "none" ELSE "missing"]
  ELSE IF Same(r, h, f) THEN r
  ELSE [dir |-> h.dir, cursor |-> h.upto, size |-> Size(f), mtime |-> f.mtime, status |-> "ok"]

SettledEntries(r, e, h, f) ==
  IF h.error \/ f = NoFile \/ Same(r, h, f) THEN e ELSE Applied(e, h)

----------------------------------------------------------------------------
(* The session files.                                                      *)

Text(ls, torn, edited) ==
  [lines |-> ls, torn |-> torn, mtime |-> clock + 1, edited |-> edited]

(* The index has read everything of file f, and knows it by its mtime.     *)
Read(s, f) ==
  rows[s] = [dir |-> Discover(s), cursor |-> Len(f.lines), size |-> Size(f),
             mtime |-> f.mtime, status |-> "ok"]

(* A change of one file. Lines that are replaced can be told as long as    *)
(* the index had read the file before and nothing follows before it reads  *)
(* it again: check.py calls the mtime "the weakest signal". After a line   *)
(* that does not parse the next pass forgets the failed one, too.          *)
Change(s, old, f) ==
  /\ clock < ChangeBound /\ clock' = clock + 1
  /\ LET hidden == \/ f.edited /\ ~Read(s, old)
                   \/ old.edited /\ rows[s].mtime # old.mtime
                   \/ \E j \in 1..Len(f.lines) : f.lines[j].kind = "bad"
     IN touched' = IF hidden THEN touched \cup {s} ELSE touched

Put(d, s, f) ==
  /\ Change(s, files[d][s], f)
  /\ files' = [files EXCEPT ![d][s] = f]
Replaceable(s) == StatRace \/ held.session # s
NoIndexer == UNCHANGED <<tableVars, pending, queue, found, held, worker, lost>>

(* A new session in one directory. Its header is no entry.                 *)
Create(d, s) ==
  /\ Up /\ s \notin born /\ born' = born \cup {s}
  /\ Put(d, s, Text(<<>>, FALSE, FALSE))
  /\ UNCHANGED <<writing, unsent, silent, outside>> /\ NoIndexer

(* A commit writes its line, which any reader may see from now on. Opening *)
(* the session for it has dropped a fragment.                              *)
WriteLine(d, s, k) ==
  /\ Up /\ Homes(s) = {d} /\ s \notin writing /\ k # "bad"
  /\ Len(files[d][s].lines) < LineBound
  /\ Put(d, s, Text(Append(files[d][s].lines, [kind |-> k, id |-> clock + 1]), FALSE, FALSE))
  /\ writing' = writing \cup {s}
  /\ UNCHANGED <<born, unsent, silent, outside>> /\ NoIndexer

(* The commit succeeds. A message's sink notifies, the setting or deletion *)
(* of a value does not: it is read with the next message.                  *)
Commit(d, s) ==
  /\ s \in writing /\ Exists(d, s) /\ ~files[d][s].torn
  /\ writing' = writing \ {s}
  /\ IF Last(files[d][s].lines).kind = "say"
     THEN unsent' = unsent \cup {s} /\ silent' = silent \ {s}
     ELSE silent' = silent \cup {s} /\ UNCHANGED unsent
  /\ UNCHANGED <<files, born, clock, touched, outside>> /\ NoIndexer

(* The line is written and cannot be flushed: it stays, and the commit     *)
(* raises before anyone is notified.                                       *)
FsyncFails(d, s) ==
  /\ s \in writing /\ Exists(d, s) /\ ~files[d][s].torn
  /\ writing' = writing \ {s} /\ outside' = outside \cup {s}
  /\ UNCHANGED <<files, born, clock, touched, unsent, silent>> /\ NoIndexer

(* Part of a line is written, and truncated again: the commit fails.       *)
ShortWrite(d, s) ==
  /\ Up /\ Homes(s) = {d} /\ s \notin writing /\ clock + 1 < ChangeBound
  /\ Put(d, s, Text(files[d][s].lines, TRUE, FALSE))
  /\ writing' = writing \cup {s}
  /\ UNCHANGED <<born, unsent, silent, outside>> /\ NoIndexer

Rollback(d, s) ==
  /\ s \in writing /\ Exists(d, s) /\ files[d][s].torn
  /\ Put(d, s, Text(files[d][s].lines, FALSE, FALSE))
  /\ writing' = writing \ {s}
  /\ UNCHANGED <<born, unsent, silent, outside>> /\ NoIndexer

Delete(d, s) ==
  /\ Up /\ Homes(s) = {d} /\ s \notin writing
  /\ Put(d, s, NoFile)
  /\ unsent' = unsent \cup {s} /\ silent' = silent \ {s}
  /\ UNCHANGED <<born, writing, outside>> /\ NoIndexer

(* The sidecar lock of a session that is being written cannot be taken.    *)
InUse(s) == s \in writing

(* Migration, another process: a rename, or across devices a copy whose    *)
(* source goes in a step of its own. A target is never overwritten.        *)
Move(d, e, s) ==
  /\ d < e /\ Exists(d, s) /\ ~Exists(e, s) /\ ~InUse(s)
  /\ Change(s, files[d][s], files[d][s])
  /\ \/ files' = [files EXCEPT ![e][s] = files[d][s], ![d][s] = NoFile]
     \/ files' = [files EXCEPT ![e][s] = files[d][s]]
  /\ outside' = outside \cup {s}
  /\ UNCHANGED <<born, writing, unsent, silent>> /\ NoIndexer

DropSource(d, s) ==
  /\ Cardinality(Homes(s)) > 1 /\ d = Min(Homes(s))
  /\ files' = [files EXCEPT ![d][s] = NoFile]
  /\ outside' = outside \cup {s}
  /\ UNCHANGED <<born, clock, touched, writing, unsent, silent>> /\ NoIndexer

(* Someone edits a line in place, keeping the length.                      *)
Edit(d, s, k) ==
  /\ Homes(s) = {d} /\ files[d][s].lines # <<>> /\ s \notin writing
  /\ Replaceable(s)
  /\ Put(d, s, Text([files[d][s].lines EXCEPT ![1] = [kind |-> k, id |-> clock + 1]],
                    files[d][s].torn, TRUE))
  /\ outside' = outside \cup {s}
  /\ UNCHANGED <<born, writing, unsent, silent>> /\ NoIndexer

----------------------------------------------------------------------------
(* Notifications and the worker.                                           *)

EnqueueUnlessBusy(s) == pending' = IF held.session = s THEN pending ELSE pending \cup {s}

Enqueue(s) == pending' = pending \cup {s}

Notify(s) ==
  /\ s \in unsent
  /\ unsent' = unsent \ {s}
  /\ Enqueue(s)
  /\ UNCHANGED <<files, born, clock, touched, writing, silent, outside, tableVars, queue, found, held, worker, lost>>

(* start(initial_reconcile): every file, and every row that is not ok.     *)
Reconcile ==
  /\ worker = "boot"
  /\ found' = [s \in Sessions |-> Discover(s)]
  /\ queue' = {s \in Sessions : found'[s] # -1 \/ rows[s].status \notin {"none", "ok"}}
  /\ worker' = "recon"
  /\ UNCHANGED <<fileVars, tableVars, pending, held, lost>>

(* A batch is what is pending when the settle window ends.                 *)
TakeBatch ==
  /\ worker = "idle" /\ pending # {}
  /\ queue' = pending /\ pending' = {}
  /\ worker' = "pass"
  /\ UNCHANGED <<fileVars, tableVars, found, held, lost>>

RowPath(s) == IF worker = "recon" THEN found[s] ELSE rows[s].dir

(* Where a batch looks for a session: where its row points, else wherever  *)
(* it is found. The catch-up pass does it the other way round.             *)
PathOf(s) ==
  IF worker = "recon" THEN IF found[s] # -1 THEN found[s] ELSE rows[s].dir
  ELSE IF Exists(rows[s].dir, s) THEN rows[s].dir ELSE Discover(s)

ForgetRow(s) == rows' = [rows EXCEPT ![s] = NoRow] /\ ents' = [ents EXCEPT ![s] = {}]
MarkMissing(s) ==
  /\ rows' = [rows EXCEPT ![s].status = IF rows[s] = NoRow THEN "none" ELSE "missing"]
  /\ UNCHANGED ents

(* The next session: its path is resolved and its file is read. One that   *)
(* has no file is forgotten, or marked missing by the catch-up pass.       *)
Scan ==
  /\ worker \in {"pass", "recon"} /\ held = Idle /\ queue # {}
  /\ LET s == Min(queue) d == PathOf(s)
     IN /\ queue' = queue \ {s}
        /\ IF ~Exists(d, s)
           THEN held' = Idle /\ IF worker = "recon" THEN MarkMissing(s) ELSE ForgetRow(s)
           ELSE held' = ScanFile(s, d, rows[s], files[d][s], FALSE) /\ UNCHANGED tableVars
  /\ UNCHANGED <<fileVars, pending, found, worker, lost>>

(* The stat and the write; a file rewritten in place is read again.        *)
Write ==
  /\ held # Idle
  /\ LET s == held.session r == rows[s] f == files[held.dir][s]
     IN IF ~held.error /\ f # NoFile /\ Rewritten(r, held, f)
        THEN held' = ScanFile(s, held.dir, r, f, TRUE) /\ UNCHANGED tableVars
        ELSE /\ held' = Idle
             /\ rows' = [rows EXCEPT ![s] = SettledRow(r, held, f)]
             /\ ents' = [ents EXCEPT ![s] = SettledEntries(r, @, held, f)]
  /\ UNCHANGED <<fileVars, pending, queue, found, worker, lost>>

(* The catch-up pass ends by dropping the rows whose files are gone.       *)
EndPass ==
  /\ worker \in {"pass", "recon"} /\ held = Idle /\ queue = {}
  /\ LET gone(s) == worker = "recon" /\ found[s] = -1 /\ ~Exists(rows[s].dir, s)
     IN /\ rows' = [s \in Sessions |-> IF gone(s) THEN NoRow ELSE rows[s]]
        /\ ents' = [s \in Sessions |-> IF gone(s) THEN {} ELSE ents[s]]
  /\ found' = Nowhere /\ worker' = "idle"
  /\ UNCHANGED <<fileVars, pending, queue, held, lost>>

(* A database error ends the pass, or within a batch skips the session at  *)
(* hand: the index stays behind.                                           *)
DatabaseFails ==
  /\ worker \in {"pass", "recon"} /\ ~lost
  /\ lost' = TRUE /\ held' = Idle
  /\ \/ queue' = {} /\ found' = Nowhere /\ worker' = "idle"
     \/ worker = "pass" /\ held # Idle /\ UNCHANGED <<queue, found, worker>>
  /\ UNCHANGED <<fileVars, tableVars, pending>>

----------------------------------------------------------------------------
(* The process ends at any point, with a fragment where a write was going  *)
(* on, and with the power a line that was not flushed may be cut; what was *)
(* queued or about to be notified is forgotten.                            *)
Crash(d, s) ==
  /\ Up /\ worker' = "down"
  /\ \/ UNCHANGED <<files, touched>>
     \/ /\ s \in writing /\ Exists(d, s) /\ ~files[d][s].torn
        /\ files' = [files EXCEPT ![d][s] = [@ EXCEPT !.lines = Front(@), !.torn = TRUE]]
        /\ touched' = IF rows[s].cursor >= Len(files[d][s].lines) \/ files[d][s].edited
                      THEN touched \cup {s} ELSE touched
  /\ writing' = {} /\ unsent' = {} /\ pending' = {} /\ queue' = {} /\ found' = Nowhere
  /\ held' = Idle
  /\ UNCHANGED <<born, clock, silent, outside, tableVars, lost>>

Restart ==
  /\ ~Up /\ worker' = "boot"
  /\ outside' = {} /\ silent' = {} /\ lost' = FALSE
  /\ UNCHANGED <<files, born, clock, touched, writing, unsent, tableVars, pending, queue, found, held>>

----------------------------------------------------------------------------
(* avid index check --fix, run while no server is up.                      *)

(* One session indexed to the end by index_session() or rebuild().         *)
IndexOne(s, d, r, e, full) ==
  LET f  == IF d \in Dirs THEN files[d][s] ELSE NoFile
      h1 == ScanFile(s, d, r, f, full)
      h  == IF ~h1.error /\ Rewritten(r, h1, f) THEN ScanFile(s, d, r, f, TRUE) ELSE h1
  IN <<SettledRow(r, h, f), SettledEntries(r, e, h, f)>>

(* The recommended fix of what check_index() finds wrong with a session.   *)
TrustsLength(s) ==
  LET r == rows[s] IN
  IF r = NoRow THEN IF Homes(s) # {} THEN "reindex" ELSE "none"
  ELSE IF ~Exists(r.dir, s) THEN "forget"
  ELSE IF 2 * r.cursor > Size(files[r.dir][s]) THEN "rebuild"
  ELSE IF 2 * r.cursor < Size(files[r.dir][s]) \/ r.status = "error" THEN "reindex"
  ELSE "none"

FixFor(s) ==
  LET r == rows[s] IN
  IF r = NoRow THEN IF Homes(s) # {} THEN "reindex" ELSE "none"
  ELSE IF ~Exists(r.dir, s) THEN "forget"
  ELSE IF 2 * r.cursor > Size(files[r.dir][s]) THEN "rebuild"
  ELSE IF 2 * r.cursor < Size(files[r.dir][s]) THEN "reindex"
  ELSE IF files[r.dir][s].mtime > r.mtime THEN "rebuild"
  ELSE IF r.status = "error" THEN "reindex" ELSE "none"

Fixed(s) ==
  CASE FixFor(s) = "none"   -> <<rows[s], ents[s]>>
    [] FixFor(s) = "forget" -> <<NoRow, {}>>
    [] OTHER -> IndexOne(s, IF rows[s] = NoRow THEN Discover(s) ELSE rows[s].dir,
                         rows[s], ents[s], FixFor(s) = "rebuild")

CheckFix ==
  /\ ~Up
  /\ rows' = [s \in Sessions |-> Fixed(s)[1]]
  /\ ents' = [s \in Sessions |-> Fixed(s)[2]]
  /\ worker' = "checked"
  /\ UNCHANGED <<fileVars, pending, queue, found, held, lost>>

----------------------------------------------------------------------------
Init ==
  /\ files = [d \in Dirs |-> [s \in Sessions |-> NoFile]] /\ born = {} /\ clock = 0
  /\ writing = {} /\ unsent = {} /\ silent = {} /\ outside = {} /\ touched = {}
  /\ rows = [s \in Sessions |-> NoRow] /\ ents = [s \in Sessions |-> {}]
  /\ pending = {} /\ queue = {} /\ found = Nowhere /\ held = Idle
  /\ worker = "boot" /\ lost = FALSE

Work == Reconcile \/ TakeBatch \/ Scan \/ Write \/ EndPass \/ \E s \in Sessions : Notify(s)

CommitReturns(d, s) == Commit(d, s) \/ FsyncFails(d, s) \/ Rollback(d, s)

Next ==
  \/ Work \/ Restart \/ CheckFix \/ DatabaseFails
  \/ \E s \in Sessions, d \in Dirs :
       \/ Create(d, s) \/ CommitReturns(d, s) \/ ShortWrite(d, s) \/ Delete(d, s)
       \/ DropSource(d, s) \/ Crash(d, s)
       \/ \E k \in LineKinds : WriteLine(d, s, k) \/ Edit(d, s, k)
       \/ \E e \in Dirs : Move(d, e, s)

(* The worker keeps being scheduled, a commit returns, and a server that   *)
(* is down is started again; crashes are bounded by nothing.               *)
Spec ==
  /\ Init /\ [][Next]_vars /\ WF_vars(Work) /\ WF_vars(Restart)
  /\ \A s \in Sessions : WF_vars(\E d \in Dirs : CommitReturns(d, s))

----------------------------------------------------------------------------
(* An index row that carries its file's mtime has the rows of exactly the  *)
(* lines before its cursor: crashes, rollbacks and edits in place leave    *)
(* none behind and none out (writer.py: the cursor "commits together with  *)
(* the rows of that batch"; indexer.py: "or check loses the evidence").    *)
RowsAreTheFile ==
  \A s \in Sessions \ touched :
    LET r == rows[s] f == files[r.dir][s] IN
    r.status = "ok" /\ Exists(r.dir, s) /\ r.mtime = f.mtime /\ r.cursor <= Len(f.lines)
      => ents[s] = Entries(SubSeq(f.lines, 1, r.cursor), 0)

(* The index has all of a session, or nothing of one that is gone.         *)
UpToDate(s) ==
  IF Homes(s) = {} THEN rows[s] = NoRow
  ELSE \E d \in Homes(s) :
         Len(files[d][s].lines) = 0 \/
         (rows[s].dir = d /\ ents[s] = Entries(files[d][s].lines, 0))

(* The same of its messages alone; 0 is the id of the summary's row.       *)
Said(e) == {x \in e : x[1] # 0}
MessagesUpToDate(s) ==
  \E d \in Homes(s) :
    LET said == Said(Entries(files[d][s].lines, 0))
    IN Said(ents[s]) = said /\ (said # {} => rows[s].dir = d)

(* What the index may leave to the next message: the summary of a session  *)
(* whose last commit was of a value.                                       *)
SummaryAwaitsMessage(s) == s \in silent /\ MessagesUpToDate(s)

(* While the server is up, a session the index is behind on is on its way: *)
(* a commit is being made or its notification is, or it is queued, or in   *)
(* the pass under way; a summary committed since the last message alone    *)
(* waits for the next one. Changes by others, a line that could not be     *)
(* flushed and a batch lost to a database error wait for the next start    *)
(* (notifying(): "a lost notification is caught by the next reconcile()"). *)
NothingIsForgotten ==
  worker \in {"idle", "pass"} /\ ~lost =>
    \A s \in Sessions \ (outside \cup touched) :
      \/ UpToDate(s) \/ SummaryAwaitsMessage(s)
      \/ s \in writing \cup unsent \cup pending \cup queue \cup {held.session}

(* The same over time: unless the server keeps crashing, an index that is  *)
(* behind catches up with every message.                                   *)
CatchesUp ==
  \A s \in Sessions :
    (Up /\ ~UpToDate(s)) ~>
      (UpToDate(s) \/ SummaryAwaitsMessage(s) \/ lost \/ s \in outside \cup touched \/ ~Up)

(* After check --fix no row claims to be right that is not, and a session  *)
(* is indexed in full if it had no row, or one whose file exists. One that *)
(* moved only loses its row: the next check --fix finds the file (cli.py   *)
(* prints the result of a second check).                                   *)
FixHeals ==
  [][CheckFix =>
       \A s \in Sessions \ touched :
         LET r == rows'[s] IN
         /\ r.status = "ok" =>
              /\ Exists(r.dir, s) /\ r.mtime = files[r.dir][s].mtime
              /\ ents'[s] = Entries(files[r.dir][s].lines, 0)
         /\ (rows[s] = NoRow /\ Homes(s) # {}) \/ Exists(rows[s].dir, s) => r.status = "ok"]_vars
============================================================================
