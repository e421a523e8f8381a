----------------------------- MODULE DurableLog -----------------------------
(***************************************************************************)
(* What a session store promises: a log of transactions, of which the      *)
(* acknowledged ones are never lost and never change place. A transaction  *)
(* is in the log before its writer hears of it, and an unacknowledged tail *)
(* may be gone after a failure.                                            *)
(***************************************************************************)
EXTENDS Integers, Sequences

CONSTANT Tx
VARIABLES log, acked

Appears(t) ==
  /\ t \notin {log[i] : i \in 1..Len(log)}
  /\ log' = Append(log, t)
  /\ UNCHANGED acked

Acknowledge(i) ==
  /\ acked' = acked \cup {log[i]}
  /\ UNCHANGED log

LoseTail(m) ==
  /\ \A i \in (m + 1)..Len(log) : log[i] \notin acked
  /\ log' = SubSeq(log, 1, m)
  /\ UNCHANGED acked

Init == log = <<>> /\ acked = {}

Next ==
  \/ \E t \in Tx : Appears(t)
  \/ \E i \in 1..Len(log) : Acknowledge(i) \/ LoseTail(i - 1)

Spec == Init /\ [][Next]_<<log, acked>>
=============================================================================
