---- MODULE InvoicePayment ----
(***************************************************************************)
(* One recurring invoice of a subscription, from the bKash checkout to the *)
(* activation it pays for: the owner's requests, the gateway, the daily    *)
(* job that duns, and a change of plan.                                    *)
(*                                                                         *)
(* Every statement of a request on the invoice names the state it expects; *)
(* between two statements it talks to the gateway, for as long as that     *)
(* takes.  The job writes rows it has read before.                         *)
(***************************************************************************)
CONSTANTS
    Requests,       \* requests of the owner's browsers
    Payments,       \* payments at the gateway
    Jobs            \* runs of the failed-payment reconciler

CONSTANTS NoPayment, NoRequest
ASSUME NobodyIsThere == NoPayment \notin Payments /\ NoRequest \notin Requests

VARIABLES
    invoice,        \* the invoices row
    subscription,   \* the subscriptions row
    checkouts,      \* what the owner's browser has of each payment
    gateway,        \* payments, as bKash knows them
    req,            \* what each request is doing
    job,            \* what each run of the job has read
    change          \* status a change of plan in progress has read, or "none"

vars == <<invoice, subscription, checkouts, gateway, req, job, change>>

----------------------------------------------------------------------------
Payable == {"pending", "overdue"}

\* expired: ten minutes have passed since the lease was taken.
Invoice == [status : Payable \cup {"paid", "cancelled"}, payment : Payments \cup {NoPayment},
            lease : Requests \cup {NoRequest}, expired : BOOLEAN]

\* The invoice was issued for the plan "growth"; "shuru" is free.
Subscription == [plan : {"growth", "shuru"}, status : {"active", "suspended"}]

Request == [pc : {"idle", "lease", "create", "bind", "verify", "failed", "settle"},
            payment : Payments \cup {NoPayment}]
Job == [pc : {"idle", "mark", "suspend"}, status : Payable, sub : Subscription]

TypeOK ==
    /\ invoice \in Invoice
    /\ subscription \in Subscription
    /\ checkouts \in [Payments -> {"none", "open", "released", "settled"}]
    /\ gateway \in [Payments -> {"none", "created", "approved", "captured"}]
    /\ req \in [Requests -> Request]
    /\ job \in [Jobs -> Job]
    /\ change \in {"none", "active", "suspended"}

AtRest == [pc |-> "idle", payment |-> NoPayment]

Init ==
    /\ invoice = [status |-> "pending", payment |-> NoPayment, lease |-> NoRequest, expired |-> FALSE]
    /\ subscription = [plan |-> "growth", status |-> "active"]
    /\ checkouts = [p \in Payments |-> "none"]
    /\ gateway = [p \in Payments |-> "none"]
    /\ req = [r \in Requests |-> AtRest]
    /\ job = [j \in Jobs |-> [pc |-> "idle", status |-> "pending", sub |-> subscription]]
    /\ change = "none"

Goes(r, pc, p) == req' = [req EXCEPT ![r] = [pc |-> pc, payment |-> p]]
Ends(r) == req' = [req EXCEPT ![r] = AtRest]
Unbound == invoice.status \in Payable /\ invoice.payment = NoPayment
Bound(p) == invoice.status \in Payable /\ invoice.payment = p
Known(p) == checkouts[p] # "none"

----------------------------------------------------------------------------
(* The checkout. *)

\* initiateInvoicePayment reads the invoice: payable and nothing bound to it.
\* Otherwise it answers with the checkout that is bound, or refuses.
StartCheckout(r) ==
    /\ req[r].pc = "idle"
    /\ Unbound
    /\ Goes(r, "lease", NoPayment)
    /\ UNCHANGED <<invoice, subscription, checkouts, gateway, job, change>>

\* The lease is free or has expired.
TakeLease(r) ==
    /\ req[r].pc = "lease"
    /\ Unbound /\ (invoice.lease = NoRequest \/ invoice.expired)
    /\ invoice' = [invoice EXCEPT !.lease = r, !.expired = FALSE]
    /\ Goes(r, "create", NoPayment)
    /\ UNCHANGED <<subscription, checkouts, gateway, job, change>>

ExpireLease ==
    /\ invoice.lease # NoRequest /\ ~invoice.expired
    /\ invoice' = [invoice EXCEPT !.expired = TRUE]
    /\ UNCHANGED <<subscription, checkouts, gateway, req, job, change>>

\* initializeBkashPayment makes a payment that the owner does not know yet.
CreatePayment(r, p) ==
    /\ req[r].pc = "create"
    /\ gateway[p] = "none"
    /\ gateway' = [gateway EXCEPT ![p] = "created"]
    /\ Goes(r, "bind", p)
    /\ UNCHANGED <<invoice, subscription, checkouts, job, change>>

\* Mutant: whoever has a payment binds it.
BindPaymentBlindly(r) ==
    LET p == req[r].payment IN
    /\ req[r].pc = "bind"
    /\ invoice.status \in Payable
    /\ invoice' = [invoice EXCEPT !.payment = p, !.lease = NoRequest, !.expired = FALSE]
    /\ checkouts' = [checkouts EXCEPT ![p] = "open"]
    /\ Ends(r)
    /\ UNCHANGED <<subscription, gateway, job, change>>

\* The payment is bound while the lease is this request's, and its checkout
\* goes to the browser.
BindPayment(r) ==
    LET p == req[r].payment IN
    /\ req[r].pc = "bind"
    /\ Unbound /\ invoice.lease = r
    /\ invoice' = [invoice EXCEPT !.payment = p, !.lease = NoRequest, !.expired = FALSE]
    /\ checkouts' = [checkouts EXCEPT ![p] = "open"]
    /\ Ends(r)
    /\ UNCHANGED <<subscription, gateway, job, change>>

\* An error at the gateway, or a lease that went to another request.
ReleaseLease(r) ==
    /\ req[r].pc \in {"create", "bind"}
    /\ invoice' = IF invoice.lease = r
                  THEN [invoice EXCEPT !.lease = NoRequest, !.expired = FALSE] ELSE invoice
    /\ Ends(r)
    /\ UNCHANGED <<subscription, checkouts, gateway, job, change>>

\* Every other way a request ends: refused, an error, a crash.
GiveUp(r) ==
    /\ req[r].pc # "idle"
    /\ Ends(r)
    /\ UNCHANGED <<invoice, subscription, checkouts, gateway, job, change>>

\* The owner agrees to pay, in whichever browser tab.
ApprovePayment(p) ==
    /\ Known(p) /\ gateway[p] = "created"
    /\ gateway' = [gateway EXCEPT ![p] = "approved"]
    /\ UNCHANGED <<invoice, subscription, checkouts, req, job, change>>

----------------------------------------------------------------------------
(* The settlement. *)

\* completeInvoicePayment reads the invoice: payable, and bound to the payment
\* the browser names.
StartSettlement(r, p) ==
    /\ req[r].pc = "idle"
    /\ Known(p) /\ Bound(p)
    /\ Goes(r, "verify", p)
    /\ UNCHANGED <<invoice, subscription, checkouts, gateway, job, change>>

\* Mutant: a payment that is still INITIATED counts as completed.
VerifyPaymentEarly(r) ==
    LET p == req[r].payment IN
    /\ req[r].pc = "verify"
    /\ gateway[p] \in {"created", "approved", "captured"}
    /\ gateway' = IF gateway[p] = "approved" THEN [gateway EXCEPT ![p] = "captured"] ELSE gateway
    /\ Goes(r, "settle", p)
    /\ UNCHANGED <<invoice, subscription, checkouts, job, change>>

\* verifyBkashPayment executes the payment: this is when the money moves.
VerifyPayment(r) ==
    LET p == req[r].payment IN
    /\ req[r].pc = "verify"
    /\ gateway[p] \in {"approved", "captured"}
    /\ gateway' = [gateway EXCEPT ![p] = "captured"]
    /\ Goes(r, "settle", p)
    /\ UNCHANGED <<invoice, subscription, checkouts, job, change>>

\* The money moves and the answer is lost.
VerifyUnheard(r) ==
    LET p == req[r].payment IN
    /\ req[r].pc = "verify"
    /\ gateway[p] = "approved"
    /\ gateway' = [gateway EXCEPT ![p] = "captured"]
    /\ Ends(r)
    /\ UNCHANGED <<invoice, subscription, checkouts, job, change>>

\* Any answer that is neither COMPLETED nor INITIATED reads as failed, the one
\* for a payment that was executed before included.
VerifyFails(r) ==
    /\ req[r].pc = "verify"
    /\ Goes(r, "failed", req[r].payment)
    /\ UNCHANGED <<invoice, subscription, checkouts, gateway, job, change>>

\* Mutant: the invoice says what became of it.
ReleaseFailedAsFailed(r) ==
    LET p == req[r].payment IN
    /\ req[r].pc = "failed"
    /\ Bound(p)
    /\ invoice' = [invoice EXCEPT !.status = "failed", !.payment = NoPayment]
    /\ checkouts' = [checkouts EXCEPT ![p] = "released"]
    /\ Ends(r)
    /\ UNCHANGED <<subscription, gateway, job, change>>

\* Mutant: the checkout that is bound now goes with the one that failed.
ReleaseWhateverIsBound(r) ==
    /\ req[r].pc = "failed"
    /\ invoice.status \in Payable
    /\ invoice' = [invoice EXCEPT !.payment = NoPayment]
    /\ checkouts' = [checkouts EXCEPT ![req[r].payment] = "released"]
    /\ Ends(r)
    /\ UNCHANGED <<subscription, gateway, job, change>>

\* The invoice is free for another checkout and stays payable.
ReleaseFailed(r) ==
    LET p == req[r].payment IN
    /\ req[r].pc = "failed"
    /\ Bound(p)
    /\ invoice' = [invoice EXCEPT !.payment = NoPayment]
    /\ checkouts' = [checkouts EXCEPT ![p] = "released"]
    /\ Ends(r)
    /\ UNCHANGED <<subscription, gateway, job, change>>

\* Mutant: what was read before the verification is not looked at again.
SettleUnbound(r) ==
    /\ req[r].pc = "settle"
    /\ invoice.status \in Payable /\ subscription.plan = "growth"
    /\ invoice' = [invoice EXCEPT !.status = "paid", !.lease = NoRequest, !.expired = FALSE]
    /\ subscription' = [subscription EXCEPT !.status = "active"]
    /\ checkouts' = [checkouts EXCEPT ![req[r].payment] = "settled"]
    /\ Ends(r)
    /\ UNCHANGED <<gateway, job, change>>

\* One transaction under the locks of both rows: still payable, still bound to
\* this payment, still the plan it was issued for; paid and activated at once.
Settle(r) ==
    LET p == req[r].payment IN
    /\ req[r].pc = "settle"
    /\ Bound(p) /\ subscription.plan = "growth"
    /\ invoice' = [invoice EXCEPT !.status = "paid", !.lease = NoRequest, !.expired = FALSE]
    /\ subscription' = [subscription EXCEPT !.status = "active"]
    /\ checkouts' = [checkouts EXCEPT ![p] = "settled"]
    /\ Ends(r)
    /\ UNCHANGED <<gateway, job, change>>

\* cancelInvoicePayment: only the checkout that is bound, only while payable.
CancelCheckout(p) ==
    /\ Known(p) /\ Bound(p)
    /\ invoice' = [invoice EXCEPT !.payment = NoPayment, !.lease = NoRequest, !.expired = FALSE]
    /\ checkouts' = [checkouts EXCEPT ![p] = "released"]
    /\ UNCHANGED <<subscription, gateway, req, job, change>>

----------------------------------------------------------------------------
(* The plan and the job. *)

\* updatePlan reads the subscription without a lock.
ReadPlan ==
    /\ change = "none"
    /\ change' = subscription.status
    /\ UNCHANGED <<invoice, subscription, checkouts, gateway, req, job>>

\* Sequelize writes the status only when it is not the one that was read.
Changed ==
    [plan |-> "shuru", status |-> IF change = "active" THEN subscription.status ELSE "active"]

\* Mutant: the invoices of the old plan are cancelled, paid or not.
ChangePlanCancelsAll ==
    /\ change # "none"
    /\ subscription' = Changed
    /\ invoice' = [invoice EXCEPT !.status = "cancelled"]
    /\ change' = "none"
    /\ UNCHANGED <<checkouts, gateway, req, job>>

\* updatePlan cancels the open recurring invoices with the plan they are for.
ChangePlan ==
    /\ change # "none"
    /\ subscription' = Changed
    /\ invoice' = IF invoice.status \in Payable THEN [invoice EXCEPT !.status = "cancelled"] ELSE invoice
    /\ change' = "none"
    /\ UNCHANGED <<checkouts, gateway, req, job>>

\* getOverdueInvoices, with the subscription of each.
FindOverdue(j) ==
    /\ job[j].pc = "idle"
    /\ invoice.status \in Payable
    /\ job' = [job EXCEPT ![j] = [pc |-> "mark", status |-> invoice.status, sub |-> subscription]]
    /\ UNCHANGED <<invoice, subscription, checkouts, gateway, req, change>>

\* The row that was pending when it was read becomes overdue, whatever it is now.
MarkOverdue(j) ==
    /\ job[j].pc = "mark"
    /\ invoice' = IF job[j].status = "pending" THEN [invoice EXCEPT !.status = "overdue"] ELSE invoice
    /\ job' = [job EXCEPT ![j].pc = IF job[j].sub.plan = "shuru" THEN "idle" ELSE "suspend"]
    /\ UNCHANGED <<subscription, checkouts, gateway, req, change>>

\* suspendSubscription, unless it was suspended when it was read.
SuspendSubscription(j) ==
    /\ job[j].pc = "suspend"
    /\ subscription' = IF job[j].sub.status = "suspended" THEN subscription
                       ELSE [subscription EXCEPT !.status = "suspended"]
    /\ job' = [job EXCEPT ![j].pc = "idle"]
    /\ UNCHANGED <<invoice, checkouts, gateway, req, change>>

----------------------------------------------------------------------------
Handle(r) ==
    \/ StartCheckout(r) \/ TakeLease(r) \/ BindPayment(r) \/ ReleaseLease(r) \/ GiveUp(r)
    \/ VerifyPayment(r) \/ VerifyUnheard(r) \/ VerifyFails(r) \/ ReleaseFailed(r) \/ Settle(r)
    \/ \E p \in Payments : CreatePayment(r, p) \/ StartSettlement(r, p)

Reconcile(j) == FindOverdue(j) \/ MarkOverdue(j) \/ SuspendSubscription(j)

Next ==
    \/ \E r \in Requests : Handle(r)
    \/ \E p \in Payments : ApprovePayment(p) \/ CancelCheckout(p)
    \/ \E j \in Jobs : Reconcile(j)
    \/ ExpireLease \/ ReadPlan \/ ChangePlan

Spec == Init /\ [][Next]_vars

----------------------------------------------------------------------------
(* The invoice as its promise sees it (OneBill). *)

\* Pending and overdue take payments alike.
Bill == IF invoice.status \in Payable THEN "open" ELSE invoice.status

Moved == {p \in Payments : gateway[p] = "captured"}

Promise == INSTANCE OneBill WITH bill <- Bill, standing <- invoice.payment,
                                 offers <- checkouts, money <- Moved, Dunning <- Jobs # {}

----------------------------------------------------------------------------
(* Properties. *)

\* Through lost leases, lost answers, late releases, changes of plan and
\* dunning, one checkout stands at a time, none that was released stands or
\* settles again, and the one that stands settles the invoice after its money
\* has moved.
BillImplemented == Promise!Spec

\* "The lease prevents concurrent requests from creating multiple gateway
\* payments": at no time does the owner hold two checkouts of one invoice that
\* can both still settle it.
OneOpenCheckout ==
    \A p, q \in Payments : checkouts[p] = "open" /\ checkouts[q] = "open" => p = q

\* A paid invoice names a payment whose money has moved.
PaidIsCaptured ==
    invoice.status = "paid" => /\ invoice.payment \in Payments
                               /\ gateway[invoice.payment] = "captured"

\* An invoice is paid by the checkout that is open when it is settled, never by
\* one released meanwhile, for the plan it was issued for, and the AI is active
\* with the same step.
SettledByItsCheckout ==
    [][invoice.status # "paid" /\ invoice'.status = "paid" =>
         /\ invoice.payment \in Payments /\ checkouts[invoice.payment] \in {"open", "settled"}
         /\ gateway[invoice.payment] = "captured"
         /\ subscription.plan = "growth" /\ subscription'.status = "active"]_vars

\* Whatever is under way when an invoice is paid or cancelled, nothing changes
\* its status but a run of the job that had read it as pending, and then to
\* overdue: a stale request, a plan change or a late settlement never does.
ClosedUnlessDunned ==
    [][invoice.status \notin Payable /\ invoice'.status # invoice.status =>
         /\ invoice'.status = "overdue" /\ invoice'.payment = invoice.payment
         /\ \E j \in Jobs : job[j].pc = "mark" /\ job[j].status = "pending" /\ job'[j].pc # "mark"]_vars

\* "Only unpaid, non-cancelled invoices are dunned."
OnlyUnpaidAreDunned ==
    [][invoice.status \notin Payable => invoice'.status \notin Payable]_vars
====
