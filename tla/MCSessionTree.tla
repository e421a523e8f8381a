---------------------------- MODULE MCSessionTree ----------------------------
(* Two branches, one file, turns of two calls.                              *)
EXTENDS SessionTree
==============================================================================
