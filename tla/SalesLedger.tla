---- MODULE SalesLedger ----
(***************************************************************************)
(* What the shop may rely on whatever happens in the chat: each confirmed  *)
(* summary is sold at most once, in one step that finds the pieces in      *)
(* stock and takes them, at the price of the catalogue; a cancelled sale   *)
(* gives back exactly what it took, once.                                  *)
(***************************************************************************)
EXTENDS Integers

CONSTANTS Orders, NoOrder, Prices, Key, Quantities

VARIABLES
    shelf,      \* stock and price of the product
    sold        \* sales, by order

Init ==
    /\ shelf \in [stock : Nat, price : Prices]
    /\ sold = [o \in Orders |-> NoOrder]

Sale == [key : Key, qty : Quantities, price : Prices, status : {"confirmed"}]

Sell(o) ==
    LET sale == sold'[o] IN
    /\ sold[o] = NoOrder /\ sale \in Sale
    /\ \A other \in Orders : sold[other] # NoOrder => sold[other].key # sale.key
    /\ shelf.stock >= sale.qty /\ sale.price = shelf.price
    /\ sold' = [sold EXCEPT ![o] = sale]
    /\ shelf' = [shelf EXCEPT !.stock = @ - sale.qty]

TakeBack(o) ==
    /\ sold[o] # NoOrder /\ sold[o].status = "confirmed"
    /\ sold' = [sold EXCEPT ![o].status = "cancelled"]
    /\ shelf' = [shelf EXCEPT !.stock = @ + sold[o].qty]

Restock ==
    /\ shelf' \in [stock : Nat, price : Prices]
    /\ UNCHANGED sold

Next == Restock \/ \E o \in Orders : Sell(o) \/ TakeBack(o)

Spec == Init /\ [][Next]_<<shelf, sold>>
====
