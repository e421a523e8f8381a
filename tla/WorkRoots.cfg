SPECIFICATION Spec
CONSTANTS
  Sessions = {s1, s2}
  Places = {repo, dir}
  Default = repo
  Threads = {t1, t2}
  Clis = {c1}
  Repos = {repo}
  CallBound = 5
  Torn = Torn
  None = None
SYMMETRY MCSymmetry
INVARIANTS
  SessionsReachable
  RootHasOneOwner
  WorkIsKept
CHECK_DEADLOCK FALSE
