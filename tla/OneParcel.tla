---- MODULE OneParcel ----
(***************************************************************************)
(* What the durable courier claim promises: however many requests try to   *)
(* book an order, and however often, the courier is given one parcel of    *)
(* it; a claim opens again only after the courier refused, and one whose   *)
(* outcome is not known stays held.                                        *)
(***************************************************************************)
CONSTANT Parcels

VARIABLES
    claim,  \* "open", "asked", "held", "booked", or "gone" with its order
    sent    \* parcels the courier has accepted

Init == claim = "open" /\ sent = {}

\* One request at a time asks the courier.
Ask == claim = "open" /\ claim' = "asked" /\ UNCHANGED sent

\* The request may be under way when the order goes.
Send ==
    /\ claim \in {"asked", "gone"} /\ sent = {}
    /\ \E p \in Parcels : sent' = {p}
    /\ UNCHANGED claim

Refuse == claim = "asked" /\ sent = {} /\ claim' = "open" /\ UNCHANGED sent

Doubt == claim = "asked" /\ claim' = "held" /\ UNCHANGED sent

Book == claim = "asked" /\ sent # {} /\ claim' = "booked" /\ UNCHANGED sent

Withdraw == claim' = "gone" /\ UNCHANGED sent

Next == Ask \/ Send \/ Refuse \/ Doubt \/ Book \/ Withdraw

Spec == Init /\ [][Next]_<<claim, sent>>
====
