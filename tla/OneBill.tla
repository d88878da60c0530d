---- MODULE OneBill ----
(***************************************************************************)
(* What one invoice promises its owner: one offer to pay stands at a time; *)
(* an offer that was taken back never stands again and never pays; and the *)
(* bill is paid by the offer that stands, after the money of that offer    *)
(* has moved.  An owner who pays an offer that was taken back has paid,    *)
(* and the bill is as open as before.                                      *)
(*                                                                         *)
(* A bill is closed once, unless overdue bills are looked for: a dunning   *)
(* run may open a closed one again.                                        *)
(***************************************************************************)
CONSTANTS Payments, NoPayment, Dunning

VARIABLES
    bill,       \* "open", "paid" or "cancelled"
    standing,   \* the offer that stands, or NoPayment
    offers,     \* "none", "open", "released" or "settled", for each payment
    money       \* payments whose money has moved

Init ==
    /\ bill = "open" /\ standing = NoPayment
    /\ offers = [p \in Payments |-> "none"] /\ money = {}

Offer(p) ==
    /\ bill = "open" /\ standing = NoPayment /\ offers[p] = "none"
    /\ standing' = p
    /\ offers' = [offers EXCEPT ![p] = "open"]
    /\ UNCHANGED <<bill, money>>

Withdraw(p) ==
    /\ bill = "open" /\ standing = p
    /\ standing' = NoPayment
    /\ offers' = [offers EXCEPT ![p] = "released"]
    /\ UNCHANGED <<bill, money>>

Charge(p) ==
    /\ offers[p] # "none" /\ p \notin money
    /\ money' = money \cup {p}
    /\ UNCHANGED <<bill, standing, offers>>

Pay(p) ==
    /\ bill = "open" /\ standing = p /\ p \in money
    /\ bill' = "paid"
    /\ offers' = [offers EXCEPT ![p] = "settled"]
    /\ UNCHANGED <<standing, money>>

Cancel == bill = "open" /\ bill' = "cancelled" /\ UNCHANGED <<standing, offers, money>>

Reopen == Dunning /\ bill # "open" /\ bill' = "open" /\ UNCHANGED <<standing, offers, money>>

Next ==
    \/ \E p \in Payments : Offer(p) \/ Withdraw(p) \/ Charge(p) \/ Pay(p)
    \/ Cancel \/ Reopen

Spec == Init /\ [][Next]_<<bill, standing, offers, money>>
====
