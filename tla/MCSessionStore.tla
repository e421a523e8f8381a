-------------------------- MODULE MCSessionStore --------------------------
(* Instance of SessionStore for TLC: two processes share a session file.   *)
EXTENDS SessionStore

CONSTANTS none, p1, p2

MCProcs == {p1, p2}
============================================================================
