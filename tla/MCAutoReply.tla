---- MODULE MCAutoReply ----
(* Model values and symmetry for TLC. *)
EXTENDS AutoReply, TLC

CONSTANTS t1, t2, w1, w2

TwoTurns == {t1, t2}
OneTurn == {t1}
TwoWorkers == {w1, w2}
TurnsAndWorkers == Permutations(TwoTurns) \cup Permutations(TwoWorkers)
====
