---- MODULE MCInvoicePayment ----
(* Small instances of InvoicePayment for TLC. *)
EXTENDS InvoicePayment, TLC

Everyone == Permutations(Requests) \cup Permutations(Payments) \cup Permutations(Jobs)
====
