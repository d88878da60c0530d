---- MODULE OrderTaking ----
(***************************************************************************)
(* One customer who orders in the chat: the order sessions, the turns that *)
(* the message worker runs over them, the product with its stock and price *)
(* and the orders that come of it.                                         *)
(*                                                                         *)
(* The jobs of a conversation may overlap: the delivery lock is taken only *)
(* when the reply is sent, after the order flow has run.  A turn reads the *)
(* session row once, works on its copy and writes columns back, most of    *)
(* the time without a condition; step_data, with the cart in it, is one    *)
(* column.  Creating the order is one transaction under an advisory lock   *)
(* and the lock of the product row.                                        *)
(***************************************************************************)
EXTENDS Integers

CONSTANTS
    Turns,          \* turns of the worker, retried jobs included
    Sessions,       \* order sessions of the customer
    Orders,         \* orders that can be created
    MaxQuantity,    \* bound: pieces a customer asks for
    MaxStock,       \* bound: pieces the merchant enters
    Prices,         \* prices the merchant enters
    MaxEdits,       \* bound: changes the merchant makes to the product
    MaxMessages     \* bound: turns that begin

ASSUME BoundsAreNumbers == {MaxQuantity, MaxStock, MaxEdits, MaxMessages} \cup Prices \subseteq Nat
ASSUME SomeQuantity == MaxQuantity > 0

CONSTANTS NoOrder, NoLine, NoSession
ASSUME NothingIsThere == NoOrder \notin Orders /\ NoSession \notin Sessions

VARIABLES
    sessions,   \* order_sessions rows
    product,    \* the product row
    orders,     \* orders rows
    edits,      \* changes the merchant has made
    messages,   \* turns that have begun
    act         \* what each turn is doing

vars == <<sessions, product, orders, edits, messages, act>>

----------------------------------------------------------------------------
Quantities == 1..MaxQuantity

\* The cart: one line, with the price and the stock that were quoted.
Line == [qty : Quantities, price : Prices, quote : Nat]
Cart == Line \cup {NoLine}
ASSUME NoLineIsNoLine == NoLine \notin Line

Closed == {"CANCELLED", "ABANDONED", "COMPLETED"}
Statuses == {"none", "ACTIVE", "SUSPENDED"} \cup Closed

\* "more" stands for the steps from ADD_MORE to COLLECTING_NOTES.
Steps == {"adding", "quantity", "more", "summary"}

\* info is product_info, the line chosen last.
Row == [status : Statuses, step : Steps, info : Cart, cart : Cart, order : Orders \cup {NoOrder}]
NoRow == [status |-> "none", step |-> "adding", info |-> NoLine, cart |-> NoLine, order |-> NoOrder]

\* The idempotency key: a digest of the session and the confirmed summary.
Key == [session : Sessions, line : Line]
Order == [key : Key, qty : Quantities, price : Prices, status : {"confirmed", "cancelled"}]
ASSUME NoOrderIsNoOrder == NoOrder \notin Order

\* step, line, cart: what the turn still needs of the row it read, and then
\* what it will write; "same" writes no step.  line is product_info, then the
\* line being confirmed.  order: the order the turn created or found.
Act == [pc : {"idle", "start", "cancel", "suspend", "resume", "again", "defer", "answer",
              "write", "gate", "create", "created"},
        ses : Sessions \cup {NoSession}, step : Steps \cup {"same"}, line : Cart, cart : Cart,
        order : Orders \cup {NoOrder}]

AtRest == [pc |-> "idle", ses |-> NoSession, step |-> "same", line |-> NoLine,
           cart |-> NoLine, order |-> NoOrder]

TypeOK ==
    /\ sessions \in [Sessions -> Row]
    /\ product \in [stock : Nat, price : Prices]
    /\ orders \in [Orders -> Order \cup {NoOrder}]
    /\ edits \in Nat /\ messages \in Nat
    /\ act \in [Turns -> Act]

Init ==
    /\ sessions = [s \in Sessions |-> NoRow]
    /\ product \in [stock : {MaxStock}, price : Prices]
    /\ orders = [o \in Orders |-> NoOrder]
    /\ edits = 0 /\ messages = 0
    /\ act = [t \in Turns |-> AtRest]

\* getCartItems: the cart, or the line chosen last when there is none.
getCartItems(t) == IF act[t].cart # NoLine THEN act[t].cart ELSE act[t].line

\* checkStock reads the product row without a lock.
Available(qty) == product.stock >= qty
Quoted(qty) == [qty |-> qty, price |-> product.price, quote |-> product.stock]

Begins == messages < MaxMessages /\ messages' = messages + 1
Goes(t, pc) == act' = [act EXCEPT ![t].pc = pc]
Ends(t) == act' = [act EXCEPT ![t] = AtRest]
Writes(t, next, cart) ==
    act' = [act EXCEPT ![t] = [AtRest EXCEPT !.pc = "write", !.ses = act[t].ses, !.cart = cart,
                                   !.step = IF next = act[t].step THEN "same" ELSE next]]
Updates(t, row) == sessions' = [sessions EXCEPT ![act[t].ses] = row]

----------------------------------------------------------------------------
(* A turn begins. *)

\* A purchase while no session is ACTIVE: startOrderSession has looked for one
\* and goes on to create its own.
StartOrder(t) ==
    /\ act[t].pc = "idle"
    /\ \A s \in Sessions : sessions[s].status # "ACTIVE"
    /\ Goes(t, "start") /\ Begins
    /\ UNCHANGED <<sessions, product, orders, edits>>

\* The stock gate, then the new session; it asks for the quantity.
CreateSession(t, s) ==
    /\ act[t].pc = "start"
    /\ sessions[s].status = "none"
    /\ Available(1)
    /\ sessions' = [sessions EXCEPT ![s] = [NoRow EXCEPT !.status = "ACTIVE", !.step = "quantity",
                                                         !.info = Quoted(1)]]
    /\ Ends(t)
    /\ UNCHANGED <<product, orders, edits, messages>>

\* The next message finds a session nobody touched for a day: out of reach of
\* every turn, and marked by the purchase that finds it.
AbandonSession(s) ==
    /\ sessions[s].status = "ACTIVE"
    /\ \A t \in Turns : act[t].ses # s
    /\ sessions' = [sessions EXCEPT ![s].status = "ABANDONED"]
    /\ UNCHANGED <<product, orders, edits, messages, act>>

\* What handleOrderFlow makes of the message, by the status of the session.
Handling(status) == CASE status = "ACTIVE" -> {"cancel", "suspend", "defer", "answer"}
                      [] status = "SUSPENDED" -> {"cancel", "defer", "resume"}
                      [] OTHER -> {}

Copy(s, what) ==
    LET held == [AtRest EXCEPT !.pc = what, !.ses = s] IN
    CASE what = "cancel" -> held
      [] what = "answer" -> [held EXCEPT !.step = sessions[s].step, !.line = sessions[s].info,
                                         !.cart = sessions[s].cart]
      [] OTHER -> [held EXCEPT !.cart = sessions[s].cart]

\* Each operation reads the row itself, with the statuses it accepts.
ReadSession(t, s, what) ==
    /\ act[t].pc = "idle"
    /\ what \in Handling(sessions[s].status)
    /\ act' = [act EXCEPT ![t] = Copy(s, what)] /\ Begins
    /\ UNCHANGED <<sessions, product, orders, edits>>

\* After resumeSession the reply is the answer to the step that was kept.
ReadAgain(t) ==
    /\ act[t].pc = "again"
    /\ sessions[act[t].ses].status = "ACTIVE"
    /\ act' = [act EXCEPT ![t] = Copy(act[t].ses, "answer")]
    /\ UNCHANGED <<sessions, product, orders, edits, messages>>

\* A gate that denies, a question that cannot be placed, an error, a crash:
\* the turn ends where it is.
GiveUp(t) ==
    /\ act[t].pc # "idle"
    /\ Ends(t)
    /\ UNCHANGED <<sessions, product, orders, edits, messages>>

----------------------------------------------------------------------------
(* The status of the session. *)

\* cancelSession, and ORDER_SUMMARY that finds too little stock: no condition.
CancelSession(t) ==
    /\ act[t].pc = "cancel"
    /\ Updates(t, [sessions[act[t].ses] EXCEPT !.status = "CANCELLED"])
    /\ Ends(t)
    /\ UNCHANGED <<product, orders, edits, messages>>

\* suspendSession repeats its status in the update; step_data goes back as read.
SuspendSession(t) ==
    /\ act[t].pc = "suspend"
    /\ sessions[act[t].ses].status = "ACTIVE"
    /\ Updates(t, [sessions[act[t].ses] EXCEPT !.status = "SUSPENDED", !.cart = act[t].cart])
    /\ Ends(t)
    /\ UNCHANGED <<product, orders, edits, messages>>

\* Mutant: the update names the row alone.
ResumeSessionBlindly(t) ==
    /\ act[t].pc = "resume"
    /\ Updates(t, [sessions[act[t].ses] EXCEPT !.status = "ACTIVE", !.cart = act[t].cart])
    /\ act' = [act EXCEPT ![t] = [AtRest EXCEPT !.pc = "again", !.ses = act[t].ses]]
    /\ UNCHANGED <<product, orders, edits, messages>>

\* resumeSession likewise; a resume word alone ends here (GiveUp).
ResumeSession(t) ==
    /\ act[t].pc = "resume"
    /\ sessions[act[t].ses].status = "SUSPENDED"
    /\ Updates(t, [sessions[act[t].ses] EXCEPT !.status = "ACTIVE", !.cart = act[t].cart])
    /\ act' = [act EXCEPT ![t] = [AtRest EXCEPT !.pc = "again", !.ses = act[t].ses]]
    /\ UNCHANGED <<product, orders, edits, messages>>

\* Another turn resumed it first: the answer is tried all the same.
ResumeLost(t) ==
    /\ act[t].pc = "resume"
    /\ sessions[act[t].ses].status # "SUSPENDED"
    /\ act' = [act EXCEPT ![t] = [AtRest EXCEPT !.pc = "again", !.ses = act[t].ses]]
    /\ UNCHANGED <<sessions, product, orders, edits, messages>>

\* markAwaitingResume writes step_data as it was read, with a note in it.
MarkAwaitingResume(t) ==
    /\ act[t].pc = "defer"
    /\ Updates(t, [sessions[act[t].ses] EXCEPT !.cart = act[t].cart])
    /\ Ends(t)
    /\ UNCHANGED <<product, orders, edits, messages>>

----------------------------------------------------------------------------
(* The answers before the summary.  Each ends with WriteStep. *)

Answering(t, steps) == act[t].pc = "answer" /\ act[t].step \in steps

\* ADDING_PRODUCT: the product is found and quoted in product_info.
AddProduct(t) ==
    /\ Answering(t, {"adding"})
    /\ Available(1)
    /\ Updates(t, [sessions[act[t].ses] EXCEPT !.info = Quoted(1)])
    /\ Writes(t, "quantity", act[t].cart)
    /\ UNCHANGED <<product, orders, edits, messages>>

\* COLLECTING_QUANTITY: enough in stock now.  The price stays the one quoted
\* with the product, the stock is quoted again.  Without a product to quote
\* (a late removal) the turn only ends: no order can be made of such a line.
CollectQuantity(t, qty) ==
    LET line == [act[t].line EXCEPT !.qty = qty, !.quote = product.stock] IN
    /\ Answering(t, {"quantity"})
    /\ act[t].line # NoLine /\ act[t].cart = NoLine
    /\ Available(qty)
    /\ Updates(t, [sessions[act[t].ses] EXCEPT !.info = line])
    /\ Writes(t, "more", line)
    /\ UNCHANGED <<product, orders, edits, messages>>

\* Checkout and the customer's details, up to the summary.
CollectDetails(t) ==
    /\ Answering(t, {"more"})
    /\ Writes(t, "summary", act[t].cart)
    /\ UNCHANGED <<sessions, product, orders, edits, messages>>

\* applyCartEdit: another quantity, without a look at the stock.
SetQuantity(t, qty) ==
    /\ Answering(t, {"more", "summary"})
    /\ getCartItems(t) # NoLine
    /\ Writes(t, "summary", [getCartItems(t) EXCEPT !.qty = qty])
    /\ UNCHANGED <<sessions, product, orders, edits, messages>>

\* applyCartEdit: the last line is removed, product_info with it.
RemoveLine(t) ==
    /\ Answering(t, {"more", "summary"})
    /\ getCartItems(t) # NoLine
    /\ Updates(t, [sessions[act[t].ses] EXCEPT !.info = NoLine])
    /\ Writes(t, "adding", NoLine)
    /\ UNCHANGED <<product, orders, edits, messages>>

\* The last update of handleCurrentStep: step_data as the turn made it, the
\* step only when it is not the one that was read.
WriteStep(t) ==
    /\ act[t].pc = "write"
    /\ Updates(t, [sessions[act[t].ses] EXCEPT
                     !.cart = act[t].cart,
                     !.step = IF act[t].step = "same" THEN @ ELSE act[t].step])
    /\ Ends(t)
    /\ UNCHANGED <<product, orders, edits, messages>>

----------------------------------------------------------------------------
(* The summary is confirmed. *)

\* The key of the order that a confirmed line makes.
KeyOf(t) == [session |-> act[t].ses, line |-> act[t].line]
Committed(key) == \E o \in Orders : orders[o] # NoOrder /\ orders[o].key = key

Confirming(t) == Answering(t, {"summary"}) /\ getCartItems(t) # NoLine
Changed(line) == product.stock # line.quote \/ product.price # line.price

\* Too little in stock: the session will be cancelled.
FindSoldOut(t) ==
    /\ Confirming(t)
    /\ ~Available(getCartItems(t).qty)
    /\ act' = [act EXCEPT ![t] = Copy(act[t].ses, "cancel")]
    /\ UNCHANGED <<sessions, product, orders, edits, messages>>

\* The line at today's price and stock.
Refreshed(t) == [getCartItems(t) EXCEPT !.price = product.price, !.quote = product.stock]

\* Stock or price differ from the quote: the gate refuses, the customer is
\* shown the new summary, and the turn returns before anything is written.
RefuseChanged(t) ==
    /\ Confirming(t)
    /\ Available(getCartItems(t).qty) /\ Changed(getCartItems(t))
    /\ Ends(t)
    /\ UNCHANGED <<sessions, product, orders, edits, messages>>

\* The quote still stands.
Revalidate(t) ==
    /\ Confirming(t)
    /\ Available(getCartItems(t).qty) /\ ~Changed(getCartItems(t))
    /\ act' = [act EXCEPT ![t].pc = "gate", ![t].line = getCartItems(t)]
    /\ UNCHANGED <<sessions, product, orders, edits, messages>>

\* Mutant: a replay is answered as done, whatever it finds.
AuthorizeAsDone(t) ==
    /\ act[t].pc = "gate"
    /\ IF Committed(KeyOf(t)) THEN Goes(t, "created") ELSE Goes(t, "create")
    /\ UNCHANGED <<sessions, product, orders, edits, messages>>

\* The gate authorizes a key nobody has committed; otherwise it refuses.
Authorize(t) ==
    /\ act[t].pc = "gate"
    /\ IF Committed(KeyOf(t)) THEN Ends(t) ELSE Goes(t, "create")
    /\ UNCHANGED <<sessions, product, orders, edits, messages>>

\* _createOrderCore under the lock of the key: an order committed meanwhile is
\* the answer.
FindOrder(t, o) ==
    /\ act[t].pc = "create"
    /\ orders[o] # NoOrder /\ orders[o].key = KeyOf(t)
    /\ act' = [act EXCEPT ![t].pc = "created", ![t].order = o]
    /\ UNCHANGED <<sessions, product, orders, edits, messages>>

NewOrder(key, qty) == [key |-> key, qty |-> qty, price |-> product.price, status |-> "confirmed"]

\* Mutant: the order is made of the session as it is now.
CreateOrderOfSession(t, o) ==
    LET qty == sessions[act[t].ses].cart.qty IN
    /\ act[t].pc = "create" /\ ~Committed(KeyOf(t))
    /\ sessions[act[t].ses].cart # NoLine
    /\ orders[o] = NoOrder
    /\ product.stock >= qty
    /\ orders' = [orders EXCEPT ![o] = NewOrder(KeyOf(t), qty)]
    /\ product' = [product EXCEPT !.stock = @ - qty]
    /\ act' = [act EXCEPT ![t].pc = "created", ![t].order = o]
    /\ UNCHANGED <<sessions, edits, messages>>

\* Mutant: the look for the key before the lock is the only one.
CreateOrderAgain(t, o) ==
    LET qty == act[t].line.qty IN
    /\ act[t].pc = "create"
    /\ orders[o] = NoOrder
    /\ product.stock >= qty
    /\ orders' = [orders EXCEPT ![o] = NewOrder(KeyOf(t), qty)]
    /\ product' = [product EXCEPT !.stock = @ - qty]
    /\ act' = [act EXCEPT ![t].pc = "created", ![t].order = o]
    /\ UNCHANGED <<sessions, edits, messages>>

\* Mutant: the check of the stock in the chat is the only one.
CreateOrderUnchecked(t, o) ==
    LET qty == act[t].line.qty IN
    /\ act[t].pc = "create" /\ ~Committed(KeyOf(t))
    /\ orders[o] = NoOrder
    /\ orders' = [orders EXCEPT ![o] = NewOrder(KeyOf(t), qty)]
    /\ product' = [product EXCEPT !.stock = @ - qty]
    /\ act' = [act EXCEPT ![t].pc = "created", ![t].order = o]
    /\ UNCHANGED <<sessions, edits, messages>>

\* Otherwise the order is created at the price of the catalogue and the stock
\* deducted, under the lock of the product row.
CreateOrder(t, o) ==
    LET qty == act[t].line.qty IN
    /\ act[t].pc = "create" /\ ~Committed(KeyOf(t))
    /\ orders[o] = NoOrder
    /\ product.stock >= qty
    /\ orders' = [orders EXCEPT ![o] = NewOrder(KeyOf(t), qty)]
    /\ product' = [product EXCEPT !.stock = @ - qty]
    /\ act' = [act EXCEPT ![t].pc = "created", ![t].order = o]
    /\ UNCHANGED <<sessions, edits, messages>>

\* The session is completed, without a condition; step_data, with the hash of
\* the summary, follows.
CompleteSession(t) ==
    /\ act[t].pc = "created"
    /\ Updates(t, [sessions[act[t].ses] EXCEPT !.status = "COMPLETED", !.order = act[t].order])
    /\ Writes(t, "summary", act[t].cart)
    /\ UNCHANGED <<product, orders, edits, messages>>

----------------------------------------------------------------------------
(* The merchant. *)

\* updateProduct writes the stock and the price as entered.
EditProduct(stock, price) ==
    /\ edits < MaxEdits
    /\ edits' = edits + 1
    /\ product' = [stock |-> stock, price |-> price]
    /\ UNCHANGED <<sessions, orders, messages, act>>

\* cancelOrder: the stock goes back with the status, in one transaction.
CancelOrder(o) ==
    /\ orders[o] # NoOrder /\ orders[o].status = "confirmed"
    /\ orders' = [orders EXCEPT ![o].status = "cancelled"]
    /\ product' = [product EXCEPT !.stock = @ + orders[o].qty]
    /\ UNCHANGED <<sessions, edits, messages, act>>

----------------------------------------------------------------------------
Confirm(t) ==
    \/ FindSoldOut(t) \/ RefuseChanged(t) \/ Revalidate(t) \/ Authorize(t)
    \/ \E o \in Orders : FindOrder(t, o) \/ CreateOrder(t, o)
    \/ CompleteSession(t)

Answer(t) ==
    \/ AddProduct(t) \/ CollectDetails(t) \/ RemoveLine(t) \/ WriteStep(t)
    \/ \E qty \in Quantities : CollectQuantity(t, qty) \/ SetQuantity(t, qty)

Turn(t) ==
    \/ StartOrder(t) \/ ReadAgain(t) \/ GiveUp(t)
    \/ \E s \in Sessions : CreateSession(t, s)
                           \/ \E what \in Handling(sessions[s].status) : ReadSession(t, s, what)
    \/ CancelSession(t) \/ SuspendSession(t) \/ ResumeSession(t) \/ ResumeLost(t)
    \/ MarkAwaitingResume(t)
    \/ Answer(t) \/ Confirm(t)

Merchant ==
    \/ \E stock \in 0..MaxStock, price \in Prices : EditProduct(stock, price)
    \/ \E o \in Orders : CancelOrder(o)
    \/ \E s \in Sessions : AbandonSession(s)

Next == Merchant \/ \E t \in Turns : Turn(t)

Spec == Init /\ [][Next]_vars

----------------------------------------------------------------------------
(* Properties. *)

\* The customer gets the quantity they confirmed, whatever another turn has
\* done to the cart since.
OrderedAsConfirmed ==
    \A o \in Orders : orders[o] # NoOrder => orders[o].qty = orders[o].key.line.qty

\* A session that says COMPLETED names an order of its own.
CompletedIsOrdered ==
    \A s \in Sessions : sessions[s].status = "COMPLETED" =>
        LET o == sessions[s].order IN
        o \in Orders /\ orders[o] # NoOrder /\ orders[o].key.session = s

\* Cancelled, abandoned or completed, a session is never open again, however
\* late the other turns write.
ClosedStaysClosed ==
    [][\A s \in Sessions : sessions[s].status \in Closed => sessions'[s].status \in Closed]_vars

\* To the shop all of this is a ledger of sales: a confirmation sells once,
\* only what is in stock, and a cancelled order goes back.
Ledger == INSTANCE SalesLedger WITH shelf <- product, sold <- orders
SalesImplemented == Ledger!Spec
====
