----------------------------- MODULE ShellFacts -----------------------------
(***************************************************************************)
(* What the permission layer reads out of a shell command before it runs   *)
(* (avid/security/command_parse.py).  A command is a sequence of segments  *)
(* and the command substitutions in its text; a segment is one program     *)
(* with its path operands, redirections, script blocks and, for a shell    *)
(* called with -c, the command it is given.  Program names stand for the   *)
(* rows of the source's tables, one name for each treatment.               *)
(*                                                                         *)
(* The shell's segments are not the lexer's.  A segment stands apart when  *)
(* a separator the lexer knows is before it; a newline is whitespace to    *)
(* the lexer, and an operator glued to another is no separator.  Likewise  *)
(* a path is in redirect behind >, >>, >& or <>, in glued behind &>, >|    *)
(* and the like, in option when an option makes the program write it.      *)
(***************************************************************************)
EXTENDS Naturals, Sequences, SequencesExt

\* Capabilities that count as changing state wherever they are found.
StateCaps ==
  {"filesystem_write", "filesystem_delete", "network_connect", "shell_execute",
   "external_side_effect"}

\* The program tables: what a program in program position can do by itself.
\* git is judged by its verb.
ProgramCaps ==
  [cat |-> {"filesystem_read"}, echo |-> {"filesystem_read"},
   where |-> {"filesystem_read"}, cp |-> {"filesystem_write"},
   rm |-> {"filesystem_write", "filesystem_delete"},
   curl |-> {"network_connect"}, kill |-> {"external_side_effect"},
   git_diff |-> {}, git_commit |-> {"filesystem_write", "external_side_effect"},
   git_gc |-> {}, sh |-> {}]

KnownPrograms == DOMAIN ProgramCaps

\* A git verb in no table.
UnknownVerb == "git_gc"

\* Programs that only read, but for a git verb that the capabilities tell.
ReadOnlyPrograms == {"cat", "git_diff", "git_commit", "git_gc"}

\* Where the lexer begins a segment, and the segments it reads as that one:
\* the program of a later one is an argument to it.
Heads(segs) == {i \in 1..Len(segs) : i = 1 \/ segs[i].apart}
HeadOf(segs, j) == Max({i \in Heads(segs) : i <= j})
ReadAs(segs, i) == {j \in 1..Len(segs) : HeadOf(segs, j) = i}

Lex(segs, i) ==
  LET last == Max(ReadAs(segs, i))
      All(field) == FlattenSeq([k \in 1..(last - i + 1) |-> segs[i + k - 1][field]])
  IN [segs[i] EXCEPT !.args = All("args") \o All("glued"), !.option = All("option"),
                     !.redirect = All("redirect"), !.block = All("block"),
                     !.dollar = \E j \in ReadAs(segs, i) : segs[j].dollar]

\* Past the recursion limit a command is an uncertain shell execution.
TooDeep(command) ==
  [segments |-> {}, capabilities |-> {"shell_execute"}, programs |-> {},
   uncertain |-> TRUE, unknown |-> FALSE]

RedirectsUnseen(segs, i) == {}

\* The redirections the table knows, among the words of segment i. The words
\* of a script block are words of the segment around it too.
Redirects(segs, i) ==
  UNION {Range(segs[j].redirect)
           \cup UNION {Range(b.segments[1].redirect) : b \in Range(segs[j].block)}
         : j \in ReadAs(segs, i)}

\* What one segment adds: its program, its redirections, the child of a -c;
\* inner has the facts of the commands inside.
Own(segs, i, inner) ==
  LET s == segs[i]
  IN (IF s.program \in KnownPrograms THEN ProgramCaps[s.program] ELSE {})
       \cup (IF Redirects(segs, i) # {} THEN {"filesystem_write"} ELSE {})
       \cup UNION {{"shell_execute"} \cup inner[c].capabilities : c \in Range(s.child)}

\* Script blocks come first: their state capabilities are in the set before
\* the $ rule looks at any segment.
BlockCaps(command, inner) ==
  UNION {inner[b].capabilities \cap StateCaps :
           b \in UNION {Range(s.block) : s \in Range(command.segments)}}

\* The capabilities gathered when segment i has been read.
CapsAt(command, i, inner) ==
  BlockCaps(command, inner)
    \cup UNION {Own(command.segments, j, inner) : j \in Heads(command.segments) \cap 1..i}

\* The segments of a -c command come after the command's own and are judged
\* once more.
Again(command, inner) ==
  UNION {UNION {inner[c].segments : c \in Range(command.segments[i].child)}
         : i \in Heads(command.segments)}

\* A program or a git verb in no table proves nothing, and neither does a $
\* word in a command already known to change state.
Unproven(command, inner) ==
  LET segs == command.segments
  IN \/ \E i \in Heads(segs) :
          \/ segs[i].program \notin KnownPrograms \ {UnknownVerb}
          \/ /\ \E j \in ReadAs(segs, i) : segs[j].dollar
             /\ CapsAt(command, i, inner) \cap StateCaps # {}
          \/ \E c \in Range(segs[i].child) : inner[c].uncertain
     \/ \E s \in Range(segs) : \E b \in Range(s.block) : inner[b].unknown
     \/ \E s \in Again(command, inner) : s.dollar

Parse(command, inner) ==
  LET segs == command.segments
      nested == {inner[c] : c \in Range(command.substitutions)}
      again == Again(command, inner)
      programs == {segs[i].program : i \in Heads(segs)} \cup {s.program : s \in again}
  IN [segments |-> {Lex(segs, i) : i \in Heads(segs)} \cup again
                     \cup UNION {n.segments : n \in nested},
      capabilities |-> CapsAt(command, Len(segs), inner)
                         \cup UNION {{"shell_execute"} \cup n.capabilities : n \in nested},
      programs |-> programs,
      uncertain |-> Unproven(command, inner) \/ \E n \in nested : n.uncertain,
      unknown |-> ~(programs \subseteq KnownPrograms)]

\* The commands in a command: script blocks, -c arguments, substitutions.
Nested(command) ==
  Range(command.substitutions)
    \cup UNION {Range(s.block) \cup Range(s.child) : s \in Range(command.segments)}

\* Commands nest two deep here; what lies below is beyond the limit.
ParseInner(command) == Parse(command, [c \in Nested(command) |-> TooDeep(c)])
parse_shell(command) == Parse(command, [c \in Nested(command) |-> ParseInner(c)])

\* May this command share a parallel segment?
is_read_only(command) ==
  LET facts == parse_shell(command)
  IN /\ ~facts.uncertain
     /\ facts.programs # {}
     /\ facts.capabilities \cap StateCaps = {}
     /\ facts.programs \subseteq ReadOnlyPrograms

\* Every segment the command's text holds, at any depth.
AllSegments(command) ==
  LET Inside(c) == UNION {Range(s.block) \cup Range(s.child) : s \in Range(c.segments)}
      Below(c) == UNION {Range(d.segments) : d \in {c} \cup Inside(c)}
  IN UNION {Below(c) : c \in {command} \cup Range(command.substitutions)}

\* The commands a command runs, and whether the lexer comes upon each: not
\* what is given to a program that it reads as an argument.  A program that
\* only reads takes a block's words as arguments.
Runs(command) ==
  LET Inside(c) ==
        UNION {{[text |-> d, found |-> i \in Heads(c.segments)] :
                  d \in Range(c.segments[i].child)
                         \cup (IF c.segments[i].program \in ReadOnlyPrograms THEN {}
                               ELSE Range(c.segments[i].block))}
               : i \in 1..Len(c.segments)}
  IN UNION {{[text |-> c, found |-> TRUE]} \cup Inside(c) :
              c \in {command} \cup Range(command.substitutions)}

\* What a program writes by itself.
Writes(s) ==
  CASE s.program = "cp" -> {Last(s.args)}
    [] s.program \in {"cat", "echo", "where", "sh", "curl", "kill", "git_diff"} -> {}
    [] OTHER -> Range(s.args)

\* What the shell really may write when it runs the command, and whether it
\* stands where the lexer looks: behind a redirection it knows, or with a
\* program in program position.
Touches(command) ==
  LET At(r, i) ==
        LET s == r.text.segments[i]
        IN {[path |-> p, plain |-> r.found] : p \in Range(s.redirect)}
             \cup {[path |-> p, plain |-> r.found /\ i \in Heads(r.text.segments)] : p \in Writes(s)}
             \cup {[path |-> p, plain |-> FALSE] : p \in Range(s.glued) \cup Range(s.option)}
  IN UNION {UNION {At(r, i) : i \in 1..Len(r.text.segments)} : r \in Runs(command)}

\* The path-like tokens of the raw text.
command_targets(command) ==
  UNION {Range(s.args) \cup Range(s.redirect) \cup Range(s.glued) \cup Range(s.option) :
           s \in AllSegments(command)}

\* Does the raw text hold one of the write hints (a redirection, cp, rm ...)?
WriteHint(command) ==
  \E s \in AllSegments(command) :
    Range(s.redirect) \cup Range(s.glued) # {} \/ s.program \in {"cp", "rm", "git_commit"}
=============================================================================
