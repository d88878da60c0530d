---- MODULE MCOrderTaking ----
(* Small instances of OrderTaking for TLC. *)
EXTENDS OrderTaking, TLC

Everyone == Permutations(Turns) \cup Permutations(Sessions) \cup Permutations(Orders)
====
