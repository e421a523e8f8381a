---------------------------- MODULE MCRunEvents ----------------------------
(* Instance of RunEvents for TLC: one blocking and one asyncio client.     *)
EXTENDS RunEvents

CONSTANTS s1, a1

MCSync  == {s1}
MCAsync == {a1}
============================================================================
