--------------------------- MODULE MCSessionIndex ---------------------------
(* One session in two directories, two lines and five changes to the       *)
(* files: a second session shares nothing with the first but the queue.    *)
EXTENDS SessionIndex
============================================================================
