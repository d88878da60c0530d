-------------------------- MODULE MCInboundReceipts --------------------------
(* Small instances of InboundReceipts. *)
EXTENDS InboundReceipts, TLC

CONSTANTS m1, m2, m3

\* What each event is: messages only, or one of each kind that matters.
Messages == [e \in Events |-> "message"]
Mixed    == [e \in Events |-> IF e = m1 THEN "message" ELSE IF e = m2 THEN "stop" ELSE "optin"]

Symmetric == Permutations(Events) \cup Permutations(Handlers)

=============================================================================
