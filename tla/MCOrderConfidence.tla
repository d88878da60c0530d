---- MODULE MCOrderConfidence ----
(* Facts and reasons for TLC: a first address with something to verify, or
   worse once the shield lists the phone, and a second one that is clean until
   history says otherwise. *)
EXTENDS OrderConfidence, TLC

CONSTANTS b1, m1

Shield == [code |-> "RTO_SHIELD_BLOCK", severity |-> "REVIEW"]
Short == [code |-> "ADDRESS_TOO_SHORT", severity |-> "VERIFY"]
AllReasons == {NotBookable, NotConfirmed, Shield, Short}

TwoFacts == {"short", "full"}
FindingsOf == [f \in TwoFacts |-> IF f = "short" THEN {{Short}} ELSE {{}, {Shield}}]
====
