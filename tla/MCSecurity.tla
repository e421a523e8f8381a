---------------------------- MODULE MCSecurity ----------------------------
\* One home with a hidden key directory, the program's own directory and a
\* session store inside the project; commands of every shape the parser has.
EXTENDS Security

MCHome == <<"home", "u">>
Work == MCHome \o <<"work">>
MCAvidHome == MCHome \o <<"avid">>
MCStore == Work \o <<"sessions">>
Keys == MCHome \o <<"ssh">>
Netrc == MCHome \o <<"netrc">>
Tree == MCAvidHome \o <<"tree">>
Opt == <<"opt", "x">>
File == Opt \o <<"y">>

Sandboxed(path) == [root |-> path, full |-> FALSE, readOnly |-> FALSE, trial |-> "succeeds",
                    empty |-> TRUE]
MCStarts ==
  {Sandboxed(Work), Sandboxed(Tree), [Sandboxed(Work) EXCEPT !.readOnly = TRUE],
   [Sandboxed(Work) EXCEPT !.empty = FALSE],
   [Sandboxed(Work) EXCEPT !.trial = "fails"], [Sandboxed(Work) EXCEPT !.full = TRUE]}
MCMaskDirs == {Keys}
MCMaskFiles == {Netrc}
MCSensitive == {Keys}
MCExisting ==
  {MCHome, Work, MCAvidHome, MCStore, Keys, Netrc, Tree, Opt, File, <<"opt">>,
   Work \o <<"a">>, Tree \o <<"a">>}

Seg(program, args) ==
  [program |-> program, args |-> args, redirect |-> <<>>, glued |-> <<>>, option |-> <<>>,
   apart |-> TRUE, dollar |-> FALSE, block |-> <<>>, child |-> <<>>]
Cmd(segments) == [segments |-> segments, substitutions |-> <<>>]
One(segment) == Cmd(<<segment>>)
Bash(command) == [tool |-> "bash", command |-> command, damage |-> FALSE]
RemoveIt == One(Seg("rm", <<File>>))
NextLine(segment) == [segment EXCEPT !.apart = FALSE]

MCRequests ==
  {[tool |-> "write_file", path |-> File],
   [tool |-> "read_file", path |-> Keys],
   [Bash(RemoveIt) EXCEPT !.damage = TRUE],
   Bash(One(Seg("make", <<Opt, MCHome>>))),
   Bash(Cmd(<<[Seg("cat", <<Work>>) EXCEPT !.dollar = TRUE],
              NextLine([Seg("echo", <<>>) EXCEPT !.redirect = <<File>>])>>)),
   Bash(Cmd(<<Seg("cat", <<Work>>), NextLine(Seg("rm", <<File>>)), Seg("cat", <<>>)>>)),
   Bash(One([Seg("git_diff", <<>>) EXCEPT !.option = <<File>>, !.glued = <<Opt>>])),
   Bash([One(Seg("cat", <<>>)) EXCEPT !.substitutions = <<One(Seg("git_gc", <<File>>))>>]),
   Bash(One([Seg("where", <<>>) EXCEPT !.block = <<One(Seg("git_commit", <<File>>))>>])),
   Bash(One([Seg("sh", <<>>) EXCEPT !.child = <<One(Seg("cp", <<File, MCAvidHome>>))>>]))}
=============================================================================
