---- MODULE InvoicePaymentProofs ----
(***************************************************************************)
(* What InvoicePayment promises of one invoice, for any number of          *)
(* requests, payments and runs of the job.                                 *)
(*                                                                         *)
(* A request settles by what it knows of the gateway: Verified says that   *)
(* what it knows stays true while it waits.  The rest of the invariant     *)
(* says what a checkout that is open, and one that is bound, look like.    *)
(***************************************************************************)
EXTENDS InvoicePayment, TLAPS

\* A request that has a payment was given it by the gateway, or by a browser.
Holds ==
    \A r \in Requests :
        req[r].pc \in {"bind", "verify", "failed", "settle"} => req[r].payment \in Payments

\* Only a payment seen captured is settled.
Verified ==
    \A r \in Requests : req[r].pc = "settle" => gateway[req[r].payment] = "captured"

\* An open checkout is the one that is bound.
OpenIsBound == \A p \in Payments : checkouts[p] = "open" => invoice.payment = p

\* What is bound was given to a browser and never released.
BoundStands ==
    invoice.payment \in Payments => checkouts[invoice.payment] \in {"open", "settled"}

IInv == TypeOK /\ Holds /\ Verified /\ OpenIsBound /\ BoundStands /\ PaidIsCaptured

----------------------------------------------------------------------------
(* Typing. *)

LEMMA InitTyped == Init => TypeOK
BY DEF Init, TypeOK, AtRest, Invoice, Subscription, Request, Job, Payable

\* A request's step writes a record of requests.
LEMMA GoesTyped ==
    ASSUME TypeOK, NEW r \in Requests, NEW pc, NEW p,
           pc \in {"idle", "lease", "create", "bind", "verify", "failed", "settle"},
           p \in Payments \cup {NoPayment},
           Goes(r, pc, p)
    PROVE  req' \in [Requests -> Request]
BY DEF TypeOK, Request, Goes

LEMMA EndsTyped ==
    ASSUME TypeOK, NEW r \in Requests, Ends(r)
    PROVE  req' \in [Requests -> Request]
BY DEF TypeOK, Request, Ends, AtRest

LEMMA RequestTyped ==
    ASSUME TypeOK, NEW r \in Requests
    PROVE  req[r] \in Request
BY DEF TypeOK

LEMMA RequestStepTyped ==
    ASSUME TypeOK, NEW r \in Requests, Handle(r)
    PROVE  TypeOK'
<1>0. req[r].payment \in Payments \cup {NoPayment}
    BY RequestTyped DEF Request
<1>1. CASE StartCheckout(r)
    BY <1>1, GoesTyped DEF StartCheckout, TypeOK
<1>2. CASE TakeLease(r)
    <2>1. req' \in [Requests -> Request]
        BY <1>2, GoesTyped DEF TakeLease
    <2> QED BY <1>2, <2>1 DEF TakeLease, TypeOK, Invoice
<1>3. CASE BindPayment(r)
    <2>1. req' \in [Requests -> Request]
        BY <1>3, EndsTyped DEF BindPayment
    <2> QED BY <1>0, <1>3, <2>1 DEF BindPayment, TypeOK, Invoice
<1>4. CASE ReleaseLease(r)
    <2>1. req' \in [Requests -> Request]
        BY <1>4, EndsTyped DEF ReleaseLease
    <2>2. invoice' \in Invoice
        BY <1>4 DEF ReleaseLease, TypeOK, Invoice
    <2> QED BY <1>4, <2>1, <2>2 DEF ReleaseLease, TypeOK
<1>5. CASE GiveUp(r)
    BY <1>5, EndsTyped DEF GiveUp, TypeOK
<1>6. CASE VerifyPayment(r)
    <2>1. req' \in [Requests -> Request]
        BY <1>0, <1>6, GoesTyped DEF VerifyPayment
    <2> QED BY <1>6, <2>1 DEF VerifyPayment, TypeOK
<1>7. CASE VerifyUnheard(r)
    <2>1. req' \in [Requests -> Request]
        BY <1>7, EndsTyped DEF VerifyUnheard
    <2> QED BY <1>7, <2>1 DEF VerifyUnheard, TypeOK
<1>8. CASE VerifyFails(r)
    <2>1. req' \in [Requests -> Request]
        BY <1>0, <1>8, GoesTyped DEF VerifyFails
    <2> QED BY <1>8, <2>1 DEF VerifyFails, TypeOK
<1>9. CASE ReleaseFailed(r)
    <2>1. req' \in [Requests -> Request]
        BY <1>9, EndsTyped DEF ReleaseFailed
    <2> QED BY <1>9, <2>1 DEF ReleaseFailed, TypeOK, Invoice
<1>10. CASE Settle(r)
    <2>1. req' \in [Requests -> Request]
        BY <1>10, EndsTyped DEF Settle
    <2> QED BY <1>10, <2>1 DEF Settle, TypeOK, Invoice, Subscription
<1>11. ASSUME NEW p \in Payments, CreatePayment(r, p)
       PROVE  TypeOK'
    <2>1. req' \in [Requests -> Request]
        BY <1>11, GoesTyped DEF CreatePayment
    <2> QED BY <1>11, <2>1 DEF CreatePayment, TypeOK
<1>12. ASSUME NEW p \in Payments, StartSettlement(r, p)
       PROVE  TypeOK'
    <2>1. req' \in [Requests -> Request]
        BY <1>12, GoesTyped DEF StartSettlement
    <2> QED BY <1>12, <2>1 DEF StartSettlement, TypeOK
<1> QED
    BY <1>1, <1>2, <1>3, <1>4, <1>5, <1>6, <1>7, <1>8, <1>9, <1>10, <1>11, <1>12 DEF Handle

LEMMA ReconcileTyped ==
    ASSUME TypeOK, NEW j \in Jobs, Reconcile(j)
    PROVE  TypeOK'
<1>1. CASE FindOverdue(j)
    <2>1. job' \in [Jobs -> Job]
        BY <1>1 DEF FindOverdue, TypeOK, Job
    <2> QED BY <1>1, <2>1 DEF FindOverdue, TypeOK
<1>2. CASE MarkOverdue(j)
    <2>1. job' \in [Jobs -> Job]
        BY <1>2 DEF MarkOverdue, TypeOK, Job
    <2>2. invoice' \in Invoice
        BY <1>2 DEF MarkOverdue, TypeOK, Invoice, Payable
    <2> QED BY <1>2, <2>1, <2>2 DEF MarkOverdue, TypeOK
<1>3. CASE SuspendSubscription(j)
    <2>1. job' \in [Jobs -> Job]
        BY <1>3 DEF SuspendSubscription, TypeOK, Job
    <2>2. subscription' \in Subscription
        BY <1>3 DEF SuspendSubscription, TypeOK, Subscription
    <2> QED BY <1>3, <2>1, <2>2 DEF SuspendSubscription, TypeOK
<1> QED BY <1>1, <1>2, <1>3 DEF Reconcile

LEMMA StepTyped ==
    ASSUME TypeOK, [Next]_vars
    PROVE  TypeOK'
<1>1. ASSUME NEW r \in Requests, Handle(r)
      PROVE  TypeOK'
    BY <1>1, RequestStepTyped
<1>2. ASSUME NEW p \in Payments, ApprovePayment(p) \/ CancelCheckout(p)
      PROVE  TypeOK'
    <2>1. CASE ApprovePayment(p)
        BY <1>2, <2>1 DEF ApprovePayment, TypeOK
    <2>2. CASE CancelCheckout(p)
        BY <1>2, <2>2 DEF CancelCheckout, TypeOK, Invoice
    <2> QED BY <1>2, <2>1, <2>2
<1>3. ASSUME NEW j \in Jobs, Reconcile(j)
      PROVE  TypeOK'
    BY <1>3, ReconcileTyped
<1>4. CASE ExpireLease
    BY <1>4 DEF ExpireLease, TypeOK, Invoice
<1>5. CASE ReadPlan
    BY <1>5 DEF ReadPlan, TypeOK, Subscription
<1>6. CASE ChangePlan
    BY <1>6 DEF ChangePlan, Changed, TypeOK, Invoice, Subscription
<1>7. CASE UNCHANGED vars
    BY <1>7 DEF vars, TypeOK
<1> QED BY <1>1, <1>2, <1>3, <1>4, <1>5, <1>6, <1>7 DEF Next

----------------------------------------------------------------------------
(* The step. *)

\* The three parts about the rows, from what a step does to them.
LEMMA RowsKept ==
    ASSUME IInv, TypeOK', checkouts' = checkouts, invoice'.payment = invoice.payment,
           invoice'.status = "paid" => invoice.status = "paid",
           \A p \in Payments : gateway[p] = "captured" => gateway'[p] = "captured"
    PROVE  OpenIsBound' /\ BoundStands' /\ PaidIsCaptured'
BY DEF IInv, OpenIsBound, BoundStands, PaidIsCaptured

\* A request's parts, when it goes on with a payment or ends.
LEMMA GoesKept ==
    ASSUME IInv, NEW r \in Requests, NEW pc, NEW p, Goes(r, pc, p),
           pc \in {"bind", "verify", "failed", "settle"} => p \in Payments,
           pc = "settle" => gateway'[p] = "captured",
           \A q \in Payments : gateway[q] = "captured" => gateway'[q] = "captured"
    PROVE  Holds' /\ Verified'
<1>1. \A s \in Requests : s # r => req'[s] = req[s]
    BY DEF Goes, IInv, TypeOK
<1>2. req'[r] = [pc |-> pc, payment |-> p]
    BY DEF Goes, IInv, TypeOK
<1>3. ASSUME NEW s \in Requests
      PROVE  req'[s].pc \in {"bind", "verify", "failed", "settle"} => req'[s].payment \in Payments
    BY <1>1, <1>2 DEF IInv, Holds
<1>4. ASSUME NEW s \in Requests
      PROVE  req'[s].pc = "settle" => gateway'[req'[s].payment] = "captured"
    BY <1>1, <1>2 DEF IInv, Holds, Verified
<1> QED BY <1>3, <1>4 DEF Holds, Verified

LEMMA EndsKept ==
    ASSUME IInv, NEW r \in Requests, Ends(r),
           \A q \in Payments : gateway[q] = "captured" => gateway'[q] = "captured"
    PROVE  Holds' /\ Verified'
<1>1. Goes(r, "idle", NoPayment)
    BY DEF Ends, Goes, AtRest
<1> QED BY <1>1, GoesKept

\* Requests that are left alone know what they knew.
LEMMA RequestsKept ==
    ASSUME IInv, req' = req,
           \A q \in Payments : gateway[q] = "captured" => gateway'[q] = "captured"
    PROVE  Holds' /\ Verified'
BY DEF IInv, Holds, Verified

\* A payment is bound that no checkout was given out for, while nothing is bound.
LEMMA BindKeeps ==
    ASSUME IInv, NEW r \in Requests, BindPayment(r)
    PROVE  OpenIsBound' /\ BoundStands' /\ PaidIsCaptured'
<1> DEFINE p == req[r].payment
<1>1. p \in Payments
    BY DEF BindPayment, IInv, Holds
<1>2. \A q \in Payments : checkouts[q] # "open"
    BY NobodyIsThere DEF BindPayment, Unbound, IInv, OpenIsBound
<1>3. checkouts' = [checkouts EXCEPT ![p] = "open"]
    BY DEF BindPayment
<1>4. invoice' = [invoice EXCEPT !.payment = p, !.lease = NoRequest, !.expired = FALSE]
    BY DEF BindPayment
<1>5. invoice'.payment = p /\ invoice'.status = invoice.status
    BY <1>4 DEF IInv, TypeOK, Invoice
<1>6. checkouts'[p] = "open" /\ \A q \in Payments : q # p => checkouts'[q] = checkouts[q]
    BY <1>1, <1>3 DEF IInv, TypeOK
<1>7. invoice.status # "paid"
    BY DEF BindPayment, Unbound, Payable
<1> HIDE DEF p
<1> QED BY <1>1, <1>2, <1>5, <1>6, <1>7 DEF OpenIsBound, BoundStands, PaidIsCaptured

\* The checkout that is bound is released, and nothing is bound.
LEMMA ReleaseKeeps ==
    ASSUME IInv, NEW p \in Payments, Bound(p), invoice'.payment = NoPayment,
           invoice'.status = invoice.status, checkouts' = [checkouts EXCEPT ![p] = "released"]
    PROVE  OpenIsBound' /\ BoundStands' /\ PaidIsCaptured'
<1>1. checkouts'[p] = "released" /\ \A q \in Payments : q # p => checkouts'[q] = checkouts[q]
    BY DEF IInv, TypeOK
<1>2. \A q \in Payments : checkouts'[q] # "open"
    BY <1>1 DEF Bound, IInv, OpenIsBound
<1>3. invoice'.status # "paid"
    BY DEF Bound, Payable
<1> QED BY <1>2, <1>3, NobodyIsThere DEF OpenIsBound, BoundStands, PaidIsCaptured

\* The checkout that is bound settles the invoice.
LEMMA SettleKeeps ==
    ASSUME IInv, NEW r \in Requests, Settle(r)
    PROVE  OpenIsBound' /\ BoundStands' /\ PaidIsCaptured'
<1> DEFINE p == req[r].payment
<1>1. p \in Payments /\ gateway[p] = "captured"
    BY DEF Settle, IInv, Holds, Verified
<1>2. invoice.payment = p
    BY DEF Settle, Bound
<1>3. checkouts' = [checkouts EXCEPT ![p] = "settled"]
    BY DEF Settle
<1>4. invoice' = [invoice EXCEPT !.status = "paid", !.lease = NoRequest, !.expired = FALSE]
    BY DEF Settle
<1>5. invoice'.payment = p
    BY <1>2, <1>4 DEF IInv, TypeOK, Invoice
<1>6. checkouts'[p] = "settled" /\ \A q \in Payments : q # p => checkouts'[q] = checkouts[q]
    BY <1>1, <1>3 DEF IInv, TypeOK
<1>7. gateway' = gateway
    BY DEF Settle
<1> HIDE DEF p
<1> QED BY <1>1, <1>2, <1>5, <1>6, <1>7 DEF IInv, OpenIsBound, BoundStands, PaidIsCaptured

LEMMA RequestStep ==
    ASSUME IInv, TypeOK', NEW r \in Requests, Handle(r)
    PROVE  IInv'
<1>0. req[r].pc \in {"bind", "verify", "failed", "settle"} => req[r].payment \in Payments
    BY DEF IInv, Holds
<1>1. CASE StartCheckout(r)
    <2>1. Holds' /\ Verified'
        BY <1>1, GoesKept DEF StartCheckout
    <2>2. OpenIsBound' /\ BoundStands' /\ PaidIsCaptured'
        BY <1>1, RowsKept DEF StartCheckout
    <2> QED BY <2>1, <2>2 DEF IInv
<1>2. CASE TakeLease(r)
    <2>1. Holds' /\ Verified'
        BY <1>2, GoesKept DEF TakeLease
    <2>2. invoice'.payment = invoice.payment /\ invoice'.status = invoice.status
        BY <1>2 DEF TakeLease, IInv, TypeOK, Invoice
    <2>3. OpenIsBound' /\ BoundStands' /\ PaidIsCaptured'
        BY <1>2, <2>2, RowsKept DEF TakeLease
    <2> QED BY <2>1, <2>3 DEF IInv
<1>3. CASE BindPayment(r)
    <2>1. Holds' /\ Verified'
        BY <1>3, EndsKept DEF BindPayment
    <2> QED BY <1>3, <2>1, BindKeeps DEF IInv
<1>4. CASE ReleaseLease(r)
    <2>1. Holds' /\ Verified'
        BY <1>4, EndsKept DEF ReleaseLease
    <2>2. invoice'.payment = invoice.payment /\ invoice'.status = invoice.status
        BY <1>4 DEF ReleaseLease, IInv, TypeOK, Invoice
    <2>3. OpenIsBound' /\ BoundStands' /\ PaidIsCaptured'
        BY <1>4, <2>2, RowsKept DEF ReleaseLease
    <2> QED BY <2>1, <2>3 DEF IInv
<1>5. CASE GiveUp(r)
    <2>1. Holds' /\ Verified'
        BY <1>5, EndsKept DEF GiveUp
    <2>2. OpenIsBound' /\ BoundStands' /\ PaidIsCaptured'
        BY <1>5, RowsKept DEF GiveUp
    <2> QED BY <2>1, <2>2 DEF IInv
<1>6. CASE VerifyPayment(r)
    <2>1. req[r].payment \in Payments
        BY <1>0, <1>6 DEF VerifyPayment
    <2>2. gateway'[req[r].payment] = "captured"
          /\ \A q \in Payments : gateway[q] = "captured" => gateway'[q] = "captured"
        BY <1>6, <2>1 DEF VerifyPayment, IInv, TypeOK
    <2>3. Holds' /\ Verified'
        BY <1>6, <2>1, <2>2, GoesKept DEF VerifyPayment
    <2>4. OpenIsBound' /\ BoundStands' /\ PaidIsCaptured'
        BY <1>6, <2>2, RowsKept DEF VerifyPayment
    <2> QED BY <2>3, <2>4 DEF IInv
<1>7. CASE VerifyUnheard(r)
    <2>1. \A q \in Payments : gateway[q] = "captured" => gateway'[q] = "captured"
        BY <1>7 DEF VerifyUnheard, IInv, TypeOK
    <2>2. Holds' /\ Verified'
        BY <1>7, <2>1, EndsKept DEF VerifyUnheard
    <2>3. OpenIsBound' /\ BoundStands' /\ PaidIsCaptured'
        BY <1>7, <2>1, RowsKept DEF VerifyUnheard
    <2> QED BY <2>2, <2>3 DEF IInv
<1>8. CASE VerifyFails(r)
    <2>1. Holds' /\ Verified'
        BY <1>0, <1>8, GoesKept DEF VerifyFails
    <2>2. OpenIsBound' /\ BoundStands' /\ PaidIsCaptured'
        BY <1>8, RowsKept DEF VerifyFails
    <2> QED BY <2>1, <2>2 DEF IInv
<1>9. CASE ReleaseFailed(r)
    <2>1. Holds' /\ Verified'
        BY <1>9, EndsKept DEF ReleaseFailed
    <2>2. invoice'.payment = NoPayment /\ invoice'.status = invoice.status
        BY <1>9 DEF ReleaseFailed, IInv, TypeOK, Invoice
    <2>3. OpenIsBound' /\ BoundStands' /\ PaidIsCaptured'
        BY <1>0, <1>9, <2>2, ReleaseKeeps DEF ReleaseFailed
    <2> QED BY <2>1, <2>3 DEF IInv
<1>10. CASE Settle(r)
    <2>1. Holds' /\ Verified'
        BY <1>10, EndsKept DEF Settle
    <2> QED BY <1>10, <2>1, SettleKeeps DEF IInv
<1>11. ASSUME NEW p \in Payments, CreatePayment(r, p)
       PROVE  IInv'
    <2>1. \A q \in Payments : gateway[q] = "captured" => gateway'[q] = "captured"
        BY <1>11 DEF CreatePayment, IInv, TypeOK
    <2>2. Holds' /\ Verified'
        BY <1>11, <2>1, GoesKept DEF CreatePayment
    <2>3. OpenIsBound' /\ BoundStands' /\ PaidIsCaptured'
        BY <1>11, <2>1, RowsKept DEF CreatePayment
    <2> QED BY <2>2, <2>3 DEF IInv
<1>12. ASSUME NEW p \in Payments, StartSettlement(r, p)
       PROVE  IInv'
    <2>1. Holds' /\ Verified'
        BY <1>12, GoesKept DEF StartSettlement
    <2>2. OpenIsBound' /\ BoundStands' /\ PaidIsCaptured'
        BY <1>12, RowsKept DEF StartSettlement
    <2> QED BY <2>1, <2>2 DEF IInv
<1> QED
    BY <1>1, <1>2, <1>3, <1>4, <1>5, <1>6, <1>7, <1>8, <1>9, <1>10, <1>11, <1>12 DEF Handle

\* What nobody's request does.
LEMMA OtherStep ==
    ASSUME IInv, TypeOK', req' = req,
           \/ \E p \in Payments : ApprovePayment(p) \/ CancelCheckout(p)
           \/ \E j \in Jobs : Reconcile(j)
           \/ ExpireLease \/ ReadPlan \/ ChangePlan
    PROVE  IInv'
<1>1. \A q \in Payments : gateway[q] = "captured" => gateway'[q] = "captured"
    BY DEF ApprovePayment, CancelCheckout, Reconcile, FindOverdue, MarkOverdue,
           SuspendSubscription, ExpireLease, ReadPlan, ChangePlan, IInv, TypeOK
<1>2. Holds' /\ Verified'
    BY <1>1, RequestsKept
<1>3. ASSUME NEW p \in Payments, CancelCheckout(p)
      PROVE  OpenIsBound' /\ BoundStands' /\ PaidIsCaptured'
    <2>1. invoice'.payment = NoPayment /\ invoice'.status = invoice.status
        BY <1>3 DEF CancelCheckout, IInv, TypeOK, Invoice
    <2> QED BY <1>3, <2>1, ReleaseKeeps DEF CancelCheckout
<1>4. ASSUME NEW p \in Payments, ApprovePayment(p)
      PROVE  OpenIsBound' /\ BoundStands' /\ PaidIsCaptured'
    BY <1>1, <1>4, RowsKept DEF ApprovePayment
<1>5. ASSUME NEW j \in Jobs, Reconcile(j)
      PROVE  OpenIsBound' /\ BoundStands' /\ PaidIsCaptured'
    <2>1. invoice'.payment = invoice.payment
          /\ (invoice'.status = "paid" => invoice.status = "paid")
        BY <1>5 DEF Reconcile, FindOverdue, MarkOverdue, SuspendSubscription, IInv, TypeOK, Invoice
    <2>2. checkouts' = checkouts
        BY <1>5 DEF Reconcile, FindOverdue, MarkOverdue, SuspendSubscription
    <2> QED BY <1>1, <2>1, <2>2, RowsKept
<1>6. ASSUME ExpireLease \/ ReadPlan \/ ChangePlan
      PROVE  OpenIsBound' /\ BoundStands' /\ PaidIsCaptured'
    <2>1. invoice'.payment = invoice.payment
          /\ (invoice'.status = "paid" => invoice.status = "paid")
        BY <1>6 DEF ExpireLease, ReadPlan, ChangePlan, IInv, TypeOK, Invoice
    <2>2. checkouts' = checkouts
        BY <1>6 DEF ExpireLease, ReadPlan, ChangePlan
    <2> QED BY <1>1, <2>1, <2>2, RowsKept
<1> QED BY <1>2, <1>3, <1>4, <1>5, <1>6 DEF IInv

LEMMA InitInv == Init => IInv
<1> SUFFICES ASSUME Init PROVE IInv
    OBVIOUS
<1>1. TypeOK
    BY InitTyped
<1>2. Holds /\ Verified
    BY DEF Init, AtRest, Holds, Verified
<1>3. OpenIsBound /\ BoundStands /\ PaidIsCaptured
    BY NobodyIsThere DEF Init, OpenIsBound, BoundStands, PaidIsCaptured
<1> QED BY <1>1, <1>2, <1>3 DEF IInv

LEMMA StepInv ==
    ASSUME IInv, [Next]_vars
    PROVE  IInv'
<1>1. TypeOK'
    BY StepTyped DEF IInv
<1>2. ASSUME NEW r \in Requests, Handle(r)
      PROVE  IInv'
    BY <1>1, <1>2, RequestStep
<1>3. CASE \/ \E p \in Payments : ApprovePayment(p) \/ CancelCheckout(p)
           \/ \E j \in Jobs : Reconcile(j)
           \/ ExpireLease \/ ReadPlan \/ ChangePlan
    <2>1. req' = req
        BY <1>3 DEF ApprovePayment, CancelCheckout, Reconcile, FindOverdue, MarkOverdue,
                    SuspendSubscription, ExpireLease, ReadPlan, ChangePlan
    <2> QED BY <1>1, <1>3, <2>1, OtherStep
<1>4. CASE UNCHANGED vars
    BY <1>4 DEF vars, IInv, TypeOK, Holds, Verified, OpenIsBound, BoundStands, PaidIsCaptured
<1> QED BY <1>2, <1>3, <1>4 DEF Next

\* The invariant holds of every execution.
LEMMA Invariance == Spec => []IInv
BY InitInv, StepInv, PTL DEF Spec

----------------------------------------------------------------------------
(* The theorems. *)

\* Every row, checkout, request and run of the job is of its type.
THEOREM Typing == Spec => []TypeOK
<1>1. IInv => TypeOK
    BY DEF IInv
<1> QED BY <1>1, Invariance, PTL

\* However many requests take and lose the lease, the owner never holds two
\* checkouts of one invoice that can both settle it.
THEOREM OneCheckout == Spec => []OneOpenCheckout
<1>1. IInv => OneOpenCheckout
    BY DEF IInv, OpenIsBound, OneOpenCheckout
<1> QED BY <1>1, Invariance, PTL

\* An invoice is never paid before the money of its payment has moved.
THEOREM Captured == Spec => []PaidIsCaptured
<1>1. IInv => PaidIsCaptured
    BY DEF IInv
<1> QED BY <1>1, Invariance, PTL

\* Nothing but a settlement makes an invoice paid.
LEMMA OnlySettled ==
    ASSUME IInv, [Next]_vars, invoice.status # "paid", invoice'.status = "paid"
    PROVE  \E r \in Requests : Settle(r)
<1>1. ASSUME NEW r \in Requests, Handle(r), ~Settle(r)
      PROVE  invoice'.status = invoice.status
    BY <1>1 DEF Handle, StartCheckout, TakeLease, BindPayment, ReleaseLease, GiveUp,
                VerifyPayment, VerifyUnheard, VerifyFails, ReleaseFailed, CreatePayment,
                StartSettlement, IInv, TypeOK, Invoice
<1>2. ASSUME NEW j \in Jobs, Reconcile(j)
      PROVE  invoice'.status # "paid"
    BY <1>2 DEF Reconcile, FindOverdue, MarkOverdue, SuspendSubscription, IInv, TypeOK, Invoice
<1>3. ASSUME NEW p \in Payments, ApprovePayment(p) \/ CancelCheckout(p)
      PROVE  invoice'.status = invoice.status
    BY <1>3 DEF ApprovePayment, CancelCheckout, IInv, TypeOK, Invoice
<1>4. ExpireLease \/ ReadPlan \/ ChangePlan \/ UNCHANGED vars => invoice'.status # "paid"
    BY DEF ExpireLease, ReadPlan, ChangePlan, vars, IInv, TypeOK, Invoice
<1> QED BY <1>1, <1>2, <1>3, <1>4 DEF Next

\* An invoice is settled by the checkout that is open, whatever was released,
\* rebound or changed while the gateway was asked.
THEOREM Settled == Spec => SettledByItsCheckout
<1>1. ASSUME IInv, [Next]_vars, invoice.status # "paid", invoice'.status = "paid"
      PROVE  /\ invoice.payment \in Payments /\ checkouts[invoice.payment] \in {"open", "settled"}
             /\ gateway[invoice.payment] = "captured"
             /\ subscription.plan = "growth" /\ subscription'.status = "active"
    <2>1. PICK r \in Requests : Settle(r)
        BY <1>1, OnlySettled
    <2>2. req[r].payment \in Payments /\ gateway[req[r].payment] = "captured"
        BY <1>1, <2>1 DEF Settle, IInv, Holds, Verified
    <2>3. invoice.payment = req[r].payment
        BY <2>1 DEF Settle, Bound
    <2>4. checkouts[invoice.payment] \in {"open", "settled"}
        BY <1>1, <2>2, <2>3 DEF IInv, BoundStands
    <2>5. subscription.plan = "growth" /\ subscription'.status = "active"
        BY <1>1, <2>1 DEF Settle, IInv, TypeOK, Subscription
    <2> QED BY <2>2, <2>3, <2>4, <2>5
<1>2. IInv /\ [Next]_vars =>
        [invoice.status # "paid" /\ invoice'.status = "paid" =>
         /\ invoice.payment \in Payments /\ checkouts[invoice.payment] \in {"open", "settled"}
         /\ gateway[invoice.payment] = "captured"
         /\ subscription.plan = "growth" /\ subscription'.status = "active"]_vars
    BY <1>1
<1> QED BY <1>2, Invariance, PTL DEF Spec, SettledByItsCheckout

----------------------------------------------------------------------------
(* The refinement.  OneBill asks more of the payments than the invariant    *)
(* knows: a payment that is about to be bound was never offered before, and *)
(* money moves only for a payment that was.                                 *)

\* A payment on its way to be bound is new to the owner, and one request's.
Fresh ==
    \A r \in Requests : req[r].pc = "bind" =>
        /\ checkouts[req[r].payment] = "none" /\ gateway[req[r].payment] # "none"
        /\ \A s \in Requests : req[s].pc = "bind" /\ req[s].payment = req[r].payment => s = r

\* A payment that is being settled came from a browser.
Offered ==
    \A r \in Requests : req[r].pc \in {"verify", "failed", "settle"} => Known(req[r].payment)

\* What a browser has, the gateway made; what was paid, a browser had.
Given ==
    /\ \A p \in Payments : Known(p) => gateway[p] # "none"
    /\ \A p \in Payments : gateway[p] \in {"approved", "captured"} => Known(p)

RInv == IInv /\ Fresh /\ Offered /\ Given

\* A request goes on, and no payment becomes known or unknown.
LEMMA KnownKept ==
    ASSUME RInv, NEW r \in Requests, NEW pc, NEW p, Goes(r, pc, p), pc # "bind",
           pc \in {"verify", "failed", "settle"} => Known(p),
           \A q \in Payments : checkouts'[q] = "none" <=> checkouts[q] = "none",
           \A q \in Payments : gateway[q] # "none" => gateway'[q] # "none",
           pc \in {"verify", "failed", "settle"} => p \in Payments
    PROVE  Fresh' /\ Offered'
<1>1. \A s \in Requests : s # r => req'[s] = req[s]
    BY DEF Goes, RInv, IInv, TypeOK
<1>2. req'[r] = [pc |-> pc, payment |-> p]
    BY DEF Goes, RInv, IInv, TypeOK
<1>3. ASSUME NEW s \in Requests, req'[s].pc = "bind"
      PROVE  /\ checkouts'[req'[s].payment] = "none" /\ gateway'[req'[s].payment] # "none"
             /\ \A t \in Requests : req'[t].pc = "bind" /\ req'[t].payment = req'[s].payment => t = s
    <2>1. s # r /\ req'[s] = req[s]
        BY <1>1, <1>2, <1>3
    <2>2. req[s].payment \in Payments
        BY <1>3, <2>1 DEF RInv, IInv, Holds
    <2>3. checkouts'[req'[s].payment] = "none" /\ gateway'[req'[s].payment] # "none"
        BY <1>3, <2>1, <2>2 DEF RInv, Fresh
    <2>4. ASSUME NEW t \in Requests, req'[t].pc = "bind", req'[t].payment = req'[s].payment
          PROVE  t = s
        <3>1. t # r /\ req'[t] = req[t]
            BY <1>1, <1>2, <2>4
        <3> QED BY <1>3, <2>1, <2>4, <3>1 DEF RInv, Fresh
    <2> QED BY <2>3, <2>4
<1>4. ASSUME NEW s \in Requests, req'[s].pc \in {"verify", "failed", "settle"}
      PROVE  checkouts'[req'[s].payment] # "none"
    <2>1. CASE s = r
        BY <1>2, <1>4, <2>1 DEF Known
    <2>2. CASE s # r
        <3>1. req'[s] = req[s]
            BY <1>1, <2>2
        <3>2. req[s].payment \in Payments /\ Known(req[s].payment)
            BY <1>4, <3>1 DEF RInv, IInv, Holds, Offered
        <3> QED BY <3>1, <3>2 DEF Known
    <2> QED BY <2>1, <2>2
<1> QED BY <1>3, <1>4 DEF Fresh, Offered, Known

LEMMA KnownKeptAtEnd ==
    ASSUME RInv, NEW r \in Requests, Ends(r),
           \A q \in Payments : checkouts'[q] = "none" <=> checkouts[q] = "none",
           \A q \in Payments : gateway[q] # "none" => gateway'[q] # "none"
    PROVE  Fresh' /\ Offered'
<1>1. Goes(r, "idle", NoPayment)
    BY DEF Ends, Goes, AtRest
<1> QED BY <1>1, KnownKept

\* The payment a request made becomes known, and nobody else holds it.
LEMMA BindKnown ==
    ASSUME RInv, NEW r \in Requests, BindPayment(r)
    PROVE  Fresh' /\ Offered' /\ Given'
<1> DEFINE p == req[r].payment
<1>1. p \in Payments /\ gateway[p] # "none"
    BY DEF BindPayment, RInv, IInv, Holds, Fresh
<1>2. gateway' = gateway
    BY DEF BindPayment
<1>3. checkouts'[p] = "open" /\ \A q \in Payments : q # p => checkouts'[q] = checkouts[q]
    BY <1>1 DEF BindPayment, RInv, IInv, TypeOK
<1>4. req'[r].pc = "idle" /\ \A s \in Requests : s # r => req'[s] = req[s]
    BY DEF BindPayment, Ends, AtRest, RInv, IInv, TypeOK
<1>5. ASSUME NEW s \in Requests, req'[s].pc = "bind"
      PROVE  /\ checkouts'[req'[s].payment] = "none" /\ gateway'[req'[s].payment] # "none"
             /\ \A t \in Requests : req'[t].pc = "bind" /\ req'[t].payment = req'[s].payment => t = s
    <2>1. s # r /\ req'[s] = req[s]
        BY <1>4, <1>5
    <2>2. req[s].payment # p /\ req[s].payment \in Payments
        BY <1>5, <2>1 DEF BindPayment, RInv, IInv, Holds, Fresh
    <2>3. checkouts'[req'[s].payment] = "none" /\ gateway'[req'[s].payment] # "none"
        BY <1>2, <1>3, <1>5, <2>1, <2>2 DEF RInv, Fresh
    <2>4. ASSUME NEW t \in Requests, req'[t].pc = "bind", req'[t].payment = req'[s].payment
          PROVE  t = s
        <3>1. t # r /\ req'[t] = req[t]
            BY <1>4, <2>4
        <3> QED BY <1>5, <2>1, <2>4, <3>1 DEF RInv, Fresh
    <2> QED BY <2>3, <2>4
<1>6. ASSUME NEW s \in Requests, req'[s].pc \in {"verify", "failed", "settle"}
      PROVE  checkouts'[req'[s].payment] # "none"
    <2>1. s # r /\ req'[s] = req[s]
        BY <1>4, <1>6
    <2>2. req[s].payment \in Payments /\ Known(req[s].payment)
        BY <1>6, <2>1 DEF RInv, IInv, Holds, Offered
    <2> QED BY <1>3, <2>1, <2>2 DEF Known
<1>7. Given'
    <2> HIDE DEF p
    <2> QED BY <1>1, <1>2, <1>3 DEF RInv, Given, Known
<1> QED BY <1>5, <1>6, <1>7 DEF Fresh, Offered, Known

\* A payment the gateway has not made yet is in nobody's hands.
LEMMA CreateKnown ==
    ASSUME RInv, NEW r \in Requests, NEW p \in Payments, CreatePayment(r, p)
    PROVE  Fresh' /\ Offered' /\ Given'
<1>1. checkouts' = checkouts
    BY DEF CreatePayment
<1>2. gateway[p] = "none" /\ checkouts[p] = "none"
    BY DEF CreatePayment, RInv, Given, Known
<1>3. gateway'[p] = "created" /\ \A q \in Payments : q # p => gateway'[q] = gateway[q]
    BY DEF CreatePayment, RInv, IInv, TypeOK
<1>4. req'[r] = [pc |-> "bind", payment |-> p] /\ \A s \in Requests : s # r => req'[s] = req[s]
    BY DEF CreatePayment, Goes, RInv, IInv, TypeOK
<1>5. \A s \in Requests : s # r /\ req'[s].pc = "bind" =>
        /\ req'[s].payment # p /\ req'[s].payment \in Payments
        /\ checkouts[req'[s].payment] = "none" /\ gateway[req'[s].payment] # "none"
    BY <1>2, <1>4 DEF RInv, IInv, Holds, Fresh
<1>6. ASSUME NEW s \in Requests, req'[s].pc = "bind"
      PROVE  /\ checkouts'[req'[s].payment] = "none" /\ gateway'[req'[s].payment] # "none"
             /\ \A t \in Requests : req'[t].pc = "bind" /\ req'[t].payment = req'[s].payment => t = s
    <2>1. checkouts'[req'[s].payment] = "none" /\ gateway'[req'[s].payment] # "none"
        BY <1>1, <1>2, <1>3, <1>4, <1>5, <1>6
    <2>2. ASSUME NEW t \in Requests, req'[t].pc = "bind", req'[t].payment = req'[s].payment
          PROVE  t = s
        <3>1. CASE s = r \/ t = r
            BY <1>4, <1>5, <1>6, <2>2, <3>1
        <3>2. CASE s # r /\ t # r
            BY <1>4, <1>6, <2>2, <3>2 DEF RInv, Fresh
        <3> QED BY <3>1, <3>2
    <2> QED BY <2>1, <2>2
<1>7. Offered'
    BY <1>1, <1>4 DEF RInv, Offered, Known
<1>8. Given'
    BY <1>1, <1>2, <1>3 DEF RInv, Given, Known
<1> QED BY <1>6, <1>7, <1>8 DEF Fresh

LEMMA RequestKnown ==
    ASSUME RInv, NEW r \in Requests, Handle(r)
    PROVE  Fresh' /\ Offered' /\ Given'
<1>0. req[r].pc \in {"bind", "verify", "failed", "settle"} => req[r].payment \in Payments
    BY DEF RInv, IInv, Holds
<1>a. req[r].pc \in {"verify", "failed", "settle"} => Known(req[r].payment)
    BY DEF RInv, Offered
<1>1. CASE StartCheckout(r)
    BY <1>1, KnownKept DEF StartCheckout, RInv, Given, Known
<1>2. CASE TakeLease(r)
    BY <1>2, KnownKept DEF TakeLease, RInv, Given, Known
<1>3. CASE BindPayment(r)
    BY <1>3, BindKnown
<1>4. CASE ReleaseLease(r)
    BY <1>4, KnownKeptAtEnd DEF ReleaseLease, RInv, Given, Known
<1>5. CASE GiveUp(r)
    BY <1>5, KnownKeptAtEnd DEF GiveUp, RInv, Given, Known
<1>6. CASE VerifyPayment(r)
    <2>1. gateway'[req[r].payment] = "captured"
          /\ \A q \in Payments : q # req[r].payment => gateway'[q] = gateway[q]
        BY <1>0, <1>6 DEF VerifyPayment, RInv, IInv, TypeOK
    <2>2. checkouts' = checkouts
        BY <1>6 DEF VerifyPayment
    <2>3. Fresh' /\ Offered'
        BY <1>0, <1>a, <1>6, <2>1, <2>2, KnownKept DEF VerifyPayment
    <2> QED BY <1>a, <1>6, <2>1, <2>2, <2>3 DEF VerifyPayment, RInv, Given, Known
<1>7. CASE VerifyUnheard(r)
    <2>1. gateway'[req[r].payment] = "captured"
          /\ \A q \in Payments : q # req[r].payment => gateway'[q] = gateway[q]
        BY <1>0, <1>7 DEF VerifyUnheard, RInv, IInv, TypeOK
    <2>2. checkouts' = checkouts
        BY <1>7 DEF VerifyUnheard
    <2>3. Fresh' /\ Offered'
        BY <1>7, <2>1, <2>2, KnownKeptAtEnd DEF VerifyUnheard
    <2> QED BY <1>a, <1>7, <2>1, <2>2, <2>3 DEF VerifyUnheard, RInv, Given, Known
<1>8. CASE VerifyFails(r)
    <2>1. checkouts' = checkouts /\ gateway' = gateway
        BY <1>8 DEF VerifyFails
    <2>2. Fresh' /\ Offered'
        BY <1>0, <1>a, <1>8, <2>1, KnownKept DEF VerifyFails
    <2> QED BY <2>1, <2>2 DEF RInv, Given, Known
<1>9. CASE ReleaseFailed(r)
    <2>1. gateway' = gateway
        BY <1>9 DEF ReleaseFailed
    <2>2. \A q \in Payments : checkouts'[q] = "none" <=> checkouts[q] = "none"
        BY <1>0, <1>a, <1>9 DEF ReleaseFailed, Known, RInv, IInv, TypeOK
    <2>3. Fresh' /\ Offered'
        BY <1>9, <2>1, <2>2, KnownKeptAtEnd DEF ReleaseFailed
    <2> QED BY <2>1, <2>2, <2>3 DEF RInv, Given, Known
<1>10. CASE Settle(r)
    <2>1. gateway' = gateway
        BY <1>10 DEF Settle
    <2>2. \A q \in Payments : checkouts'[q] = "none" <=> checkouts[q] = "none"
        BY <1>0, <1>a, <1>10 DEF Settle, Known, RInv, IInv, TypeOK
    <2>3. Fresh' /\ Offered'
        BY <1>10, <2>1, <2>2, KnownKeptAtEnd DEF Settle
    <2> QED BY <2>1, <2>2, <2>3 DEF RInv, Given, Known
<1>11. ASSUME NEW p \in Payments, CreatePayment(r, p)
       PROVE  Fresh' /\ Offered' /\ Given'
    BY <1>11, CreateKnown
<1>12. ASSUME NEW p \in Payments, StartSettlement(r, p)
       PROVE  Fresh' /\ Offered' /\ Given'
    <2>1. checkouts' = checkouts /\ gateway' = gateway
        BY <1>12 DEF StartSettlement
    <2>2. Fresh' /\ Offered'
        BY <1>12, <2>1, KnownKept DEF StartSettlement
    <2> QED BY <2>1, <2>2 DEF RInv, Given, Known
<1> QED
    BY <1>1, <1>2, <1>3, <1>4, <1>5, <1>6, <1>7, <1>8, <1>9, <1>10, <1>11, <1>12 DEF Handle

LEMMA OtherKnown ==
    ASSUME RInv, req' = req,
           \/ \E p \in Payments : ApprovePayment(p) \/ CancelCheckout(p)
           \/ \E j \in Jobs : Reconcile(j)
           \/ ExpireLease \/ ReadPlan \/ ChangePlan
    PROVE  Fresh' /\ Offered' /\ Given'
<1>1. /\ \A q \in Payments : checkouts'[q] = "none" <=> checkouts[q] = "none"
      /\ \A q \in Payments : gateway[q] # "none" => gateway'[q] # "none"
      /\ \A q \in Payments : gateway'[q] \in {"approved", "captured"} =>
           gateway[q] \in {"approved", "captured"} \/ checkouts[q] # "none"
    <2>1. ASSUME NEW p \in Payments, CancelCheckout(p)
          PROVE  /\ gateway' = gateway
                 /\ \A q \in Payments : checkouts'[q] = "none" <=> checkouts[q] = "none"
        BY <2>1 DEF CancelCheckout, Known, RInv, IInv, TypeOK
    <2>2. ASSUME NEW p \in Payments, ApprovePayment(p)
          PROVE  /\ checkouts' = checkouts /\ checkouts[p] # "none" /\ gateway'[p] = "approved"
                 /\ \A q \in Payments : q # p => gateway'[q] = gateway[q]
        BY <2>2 DEF ApprovePayment, Known, RInv, IInv, TypeOK
    <2>3. (\E j \in Jobs : Reconcile(j)) \/ ExpireLease \/ ReadPlan \/ ChangePlan
            => checkouts' = checkouts /\ gateway' = gateway
        BY DEF Reconcile, FindOverdue, MarkOverdue, SuspendSubscription, ExpireLease, ReadPlan, ChangePlan
    <2> QED BY <2>1, <2>2, <2>3
<1>2. Fresh'
    BY <1>1 DEF RInv, IInv, Holds, Fresh
<1>3. Offered'
    BY <1>1 DEF RInv, IInv, Holds, Offered, Known
<1>4. Given'
    BY <1>1 DEF RInv, Given, Known
<1> QED BY <1>2, <1>3, <1>4

LEMMA StepRInv ==
    ASSUME RInv, [Next]_vars
    PROVE  RInv'
<1>1. IInv'
    BY StepInv DEF RInv
<1>2. ASSUME NEW r \in Requests, Handle(r)
      PROVE  Fresh' /\ Offered' /\ Given'
    BY <1>2, RequestKnown
<1>3. CASE \/ \E p \in Payments : ApprovePayment(p) \/ CancelCheckout(p)
           \/ \E j \in Jobs : Reconcile(j)
           \/ ExpireLease \/ ReadPlan \/ ChangePlan
    <2>1. req' = req
        BY <1>3 DEF ApprovePayment, CancelCheckout, Reconcile, FindOverdue, MarkOverdue,
                    SuspendSubscription, ExpireLease, ReadPlan, ChangePlan
    <2> QED BY <1>1, <1>3, <2>1, OtherKnown DEF RInv
<1>4. CASE UNCHANGED vars
    BY <1>1, <1>4 DEF vars, RInv, Fresh, Offered, Given, Known
<1> QED BY <1>1, <1>2, <1>3, <1>4 DEF Next, RInv

LEMMA InitRInv == Init => RInv
<1> SUFFICES ASSUME Init PROVE RInv
    OBVIOUS
<1>1. IInv
    BY InitInv
<1>2. Fresh /\ Offered /\ Given
    BY DEF Init, AtRest, Fresh, Offered, Given, Known
<1> QED BY <1>1, <1>2 DEF RInv

\* The invariant the refinement needs holds of every execution.
LEMMA RInvariance == Spec => []RInv
BY InitRInv, StepRInv, PTL DEF Spec

\* A step that leaves the rows and the money alone is none of OneBill's.
LEMMA BillStutters ==
    ASSUME invoice'.payment = invoice.payment, Bill' = Bill,
           checkouts' = checkouts, Moved' = Moved
    PROVE  UNCHANGED <<Bill, invoice.payment, checkouts, Moved>>
OBVIOUS

LEMMA SameRows ==
    ASSUME invoice' = invoice, checkouts' = checkouts, gateway' = gateway
    PROVE  UNCHANGED <<Bill, invoice.payment, checkouts, Moved>>
BY DEF Bill, Moved

\* The gateway executes a payment, or has executed it before.
LEMMA ChargeRefines ==
    ASSUME RInv, NEW p \in Payments, Known(p), invoice' = invoice, checkouts' = checkouts,
           gateway' = [gateway EXCEPT ![p] = "captured"]
    PROVE  Promise!Charge(p) \/ UNCHANGED <<Bill, invoice.payment, checkouts, Moved>>
<1>1. Moved' = Moved \cup {p}
    BY DEF Moved, RInv, IInv, TypeOK
<1>2. UNCHANGED <<Bill, invoice.payment, checkouts>>
    BY DEF Bill
<1>3. CASE p \in Moved
    BY <1>1, <1>2, <1>3
<1>4. CASE p \notin Moved
    BY <1>1, <1>2, <1>4 DEF Promise!Charge, Known
<1> QED BY <1>3, <1>4

\* The checkout that is bound is released.
LEMMA ReleaseRefines ==
    ASSUME RInv, NEW p \in Payments, Bound(p), invoice'.payment = NoPayment,
           invoice'.status = invoice.status, gateway' = gateway,
           checkouts' = [checkouts EXCEPT ![p] = "released"]
    PROVE  Promise!Withdraw(p)
<1>1. Bill = "open" /\ Bill' = Bill /\ Moved' = Moved
    BY DEF Bound, Bill, Moved
<1> QED BY <1>1 DEF Promise!Withdraw, Bound

LEMMA BindRefines ==
    ASSUME RInv, NEW r \in Requests, BindPayment(r)
    PROVE  \E p \in Payments : Promise!Offer(p)
<1> DEFINE p == req[r].payment
<1>1. p \in Payments /\ checkouts[p] = "none"
    BY DEF BindPayment, RInv, IInv, Holds, Fresh
<1>2. Bill = "open" /\ invoice.payment = NoPayment
    BY DEF BindPayment, Unbound, Bill
<1>3. invoice'.payment = p /\ invoice'.status = invoice.status
    BY DEF BindPayment, RInv, IInv, TypeOK, Invoice
<1>4. Bill' = Bill /\ Moved' = Moved
    BY <1>3 DEF BindPayment, Bill, Moved
<1>5. checkouts' = [checkouts EXCEPT ![p] = "open"]
    BY DEF BindPayment
<1>6. Promise!Offer(p)
    BY <1>1, <1>2, <1>3, <1>4, <1>5 DEF Promise!Offer
<1> QED BY <1>1, <1>6

LEMMA SettleRefines ==
    ASSUME RInv, NEW r \in Requests, Settle(r)
    PROVE  \E p \in Payments : Promise!Pay(p)
<1> DEFINE p == req[r].payment
<1>1. p \in Payments /\ p \in Moved
    BY DEF Settle, RInv, IInv, Holds, Verified, Moved
<1>2. Bill = "open" /\ invoice.payment = p
    BY DEF Settle, Bound, Bill
<1>3. invoice'.payment = invoice.payment /\ invoice'.status = "paid"
    BY DEF Settle, RInv, IInv, TypeOK, Invoice
<1>4. Bill' = "paid" /\ Moved' = Moved
    BY <1>3 DEF Settle, Bill, Payable, Moved
<1>5. checkouts' = [checkouts EXCEPT ![p] = "settled"]
    BY DEF Settle
<1>6. Promise!Pay(p)
    BY <1>1, <1>2, <1>3, <1>4, <1>5 DEF Promise!Pay
<1> QED BY <1>1, <1>6

LEMMA RequestRefines ==
    ASSUME RInv, NEW r \in Requests, Handle(r)
    PROVE  Promise!Next \/ UNCHANGED <<Bill, invoice.payment, checkouts, Moved>>
<1>0. req[r].pc \in {"bind", "verify", "failed", "settle"} => req[r].payment \in Payments
    BY DEF RInv, IInv, Holds
<1>a. req[r].pc \in {"verify", "failed", "settle"} => Known(req[r].payment)
    BY DEF RInv, Offered
<1>1. CASE StartCheckout(r) \/ GiveUp(r) \/ VerifyFails(r)
           \/ \E p \in Payments : StartSettlement(r, p)
    BY <1>1, SameRows DEF StartCheckout, GiveUp, VerifyFails, StartSettlement
<1>2. CASE TakeLease(r) \/ ReleaseLease(r)
    <2>1. invoice'.payment = invoice.payment /\ invoice'.status = invoice.status
        BY <1>2 DEF TakeLease, ReleaseLease, RInv, IInv, TypeOK, Invoice
    <2>2. checkouts' = checkouts /\ gateway' = gateway
        BY <1>2 DEF TakeLease, ReleaseLease
    <2> QED BY <2>1, <2>2 DEF Bill, Moved
<1>3. CASE BindPayment(r)
    BY <1>3, BindRefines DEF Promise!Next
<1>4. CASE VerifyPayment(r)
    <2>1. Promise!Charge(req[r].payment) \/ UNCHANGED <<Bill, invoice.payment, checkouts, Moved>>
        BY <1>0, <1>a, <1>4, ChargeRefines DEF VerifyPayment
    <2> QED BY <1>0, <1>4, <2>1 DEF VerifyPayment, Promise!Next
<1>5. CASE VerifyUnheard(r)
    <2>1. Promise!Charge(req[r].payment) \/ UNCHANGED <<Bill, invoice.payment, checkouts, Moved>>
        BY <1>0, <1>a, <1>5, ChargeRefines DEF VerifyUnheard
    <2> QED BY <1>0, <1>5, <2>1 DEF VerifyUnheard, Promise!Next
<1>6. CASE ReleaseFailed(r)
    <2>1. invoice'.payment = NoPayment /\ invoice'.status = invoice.status
        BY <1>6 DEF ReleaseFailed, RInv, IInv, TypeOK, Invoice
    <2>2. Promise!Withdraw(req[r].payment)
        BY <1>0, <1>6, <2>1, ReleaseRefines DEF ReleaseFailed
    <2> QED BY <1>0, <1>6, <2>2 DEF ReleaseFailed, Promise!Next
<1>7. CASE Settle(r)
    BY <1>7, SettleRefines DEF Promise!Next
<1>8. ASSUME NEW p \in Payments, CreatePayment(r, p)
      PROVE  UNCHANGED <<Bill, invoice.payment, checkouts, Moved>>
    <2>1. Moved' = Moved
        BY <1>8 DEF CreatePayment, Moved, RInv, IInv, TypeOK
    <2> QED BY <1>8, <2>1 DEF CreatePayment, Bill
<1> QED BY <1>1, <1>2, <1>3, <1>4, <1>5, <1>6, <1>7, <1>8 DEF Handle

\* Only a run of the job makes a closed bill payable again.
LEMMA ReconcileRefines ==
    ASSUME RInv, NEW j \in Jobs, Reconcile(j)
    PROVE  Promise!Next \/ UNCHANGED <<Bill, invoice.payment, checkouts, Moved>>
<1>1. CASE FindOverdue(j) \/ SuspendSubscription(j)
    BY <1>1, SameRows DEF FindOverdue, SuspendSubscription
<1>2. CASE MarkOverdue(j)
    <2>1. checkouts' = checkouts /\ gateway' = gateway /\ invoice'.payment = invoice.payment
        BY <1>2 DEF MarkOverdue, RInv, IInv, TypeOK, Invoice
    <2>2. UNCHANGED <<invoice.payment, checkouts, Moved>>
        BY <2>1 DEF Moved
    <2>3. CASE invoice' = invoice
        BY <2>2, <2>3 DEF Bill
    <2>4. CASE invoice' = [invoice EXCEPT !.status = "overdue"]
        <3>1. Bill' = "open"
            BY <2>4 DEF Bill, Payable, RInv, IInv, TypeOK, Invoice
        <3>2. Bill # "open" => Promise!Reopen
            BY <2>2, <3>1 DEF Promise!Reopen
        <3> QED BY <2>2, <3>1, <3>2 DEF Promise!Next
    <2> QED BY <1>2, <2>3, <2>4 DEF MarkOverdue
<1> QED BY <1>1, <1>2 DEF Reconcile

LEMMA RefineStep ==
    ASSUME RInv, [Next]_vars
    PROVE  Promise!Next \/ UNCHANGED <<Bill, invoice.payment, checkouts, Moved>>
<1>1. ASSUME NEW r \in Requests, Handle(r)
      PROVE  Promise!Next \/ UNCHANGED <<Bill, invoice.payment, checkouts, Moved>>
    BY <1>1, RequestRefines
<1>2. ASSUME NEW j \in Jobs, Reconcile(j)
      PROVE  Promise!Next \/ UNCHANGED <<Bill, invoice.payment, checkouts, Moved>>
    BY <1>2, ReconcileRefines
<1>3. ASSUME NEW p \in Payments, CancelCheckout(p)
      PROVE  Promise!Next
    <2>1. invoice'.payment = NoPayment /\ invoice'.status = invoice.status
        BY <1>3 DEF CancelCheckout, RInv, IInv, TypeOK, Invoice
    <2>2. Promise!Withdraw(p)
        BY <1>3, <2>1, ReleaseRefines DEF CancelCheckout
    <2> QED BY <2>2 DEF Promise!Next
<1>4. ASSUME NEW p \in Payments, ApprovePayment(p)
      PROVE  UNCHANGED <<Bill, invoice.payment, checkouts, Moved>>
    <2>1. Moved' = Moved
        BY <1>4 DEF ApprovePayment, Moved, RInv, IInv, TypeOK
    <2> QED BY <1>4, <2>1 DEF ApprovePayment, Bill
<1>5. CASE ExpireLease
    <2>1. invoice'.payment = invoice.payment /\ invoice'.status = invoice.status
        BY <1>5 DEF ExpireLease, RInv, IInv, TypeOK, Invoice
    <2> QED BY <1>5, <2>1 DEF ExpireLease, Bill, Moved
<1>6. CASE ChangePlan
    <2>1. invoice'.payment = invoice.payment
        BY <1>6 DEF ChangePlan, RInv, IInv, TypeOK, Invoice
    <2>2. UNCHANGED <<invoice.payment, checkouts, Moved>>
        BY <1>6, <2>1 DEF ChangePlan, Moved
    <2>3. CASE invoice.status \in Payable
        <3>1. invoice'.status = "cancelled"
            BY <1>6, <2>3 DEF ChangePlan, RInv, IInv, TypeOK, Invoice
        <3>2. Promise!Cancel
            BY <2>2, <2>3, <3>1 DEF Promise!Cancel, Bill, Payable
        <3> QED BY <3>2 DEF Promise!Next
    <2>4. CASE invoice.status \notin Payable
        BY <1>6, <2>2, <2>4 DEF ChangePlan, Bill
    <2> QED BY <2>3, <2>4
<1>7. CASE ReadPlan \/ UNCHANGED vars
    BY <1>7, SameRows DEF ReadPlan, vars
<1> QED BY <1>1, <1>2, <1>3, <1>4, <1>5, <1>6, <1>7 DEF Next

\* Through everything that can happen between a checkout and its settlement,
\* the invoice keeps the promise of OneBill.
THEOREM Implements == Spec => BillImplemented
<1>1. Init => Promise!Init
    <2> SUFFICES ASSUME Init PROVE Promise!Init
        OBVIOUS
    <2>1. Bill = "open" /\ invoice.payment = NoPayment
        BY DEF Init, Bill, Payable
    <2>2. checkouts = [p \in Payments |-> "none"] /\ Moved = {}
        BY DEF Init, Moved
    <2> QED BY <2>1, <2>2 DEF Promise!Init
<1>2. RInv /\ [Next]_vars => [Promise!Next]_<<Bill, invoice.payment, checkouts, Moved>>
    BY RefineStep
<1> QED BY <1>1, <1>2, RInvariance, PTL DEF Spec, BillImplemented, Promise!Spec

----------------------------------------------------------------------------
(* What follows from the promise alone. *)

\* A checkout that was released stays released: a late answer of the gateway
\* or a stale request never makes it stand or pay again.
THEOREM ReleasedForGood ==
    Spec => [][\A p \in Payments : checkouts[p] = "released" => checkouts'[p] = "released"]_vars
<1>1. ASSUME RInv, [Next]_vars, NEW p \in Payments, checkouts[p] = "released"
      PROVE  checkouts'[p] = "released"
    <2>1. CASE UNCHANGED <<Bill, invoice.payment, checkouts, Moved>>
        BY <1>1, <2>1
    <2>2. ASSUME NEW q \in Payments, Promise!Offer(q) \/ Promise!Withdraw(q) \/ Promise!Charge(q)
          PROVE  checkouts'[p] = "released"
        BY <1>1, <2>2 DEF Promise!Offer, Promise!Withdraw, Promise!Charge, RInv, IInv, TypeOK
    <2>3. ASSUME NEW q \in Payments, Promise!Pay(q)
          PROVE  checkouts'[p] = "released"
        <3>1. checkouts[q] \in {"open", "settled"}
            BY <1>1, <2>3 DEF Promise!Pay, RInv, IInv, BoundStands
        <3> QED BY <1>1, <2>3, <3>1 DEF Promise!Pay, RInv, IInv, TypeOK
    <2>4. CASE Promise!Cancel \/ Promise!Reopen
        BY <1>1, <2>4 DEF Promise!Cancel, Promise!Reopen
    <2> QED BY <1>1, <2>1, <2>2, <2>3, <2>4, RefineStep DEF Promise!Next
<1>2. RInv /\ [Next]_vars =>
        [\A p \in Payments : checkouts[p] = "released" => checkouts'[p] = "released"]_vars
    BY <1>1
<1> QED BY <1>2, RInvariance, PTL DEF Spec

\* Nothing but a run of the job that read the invoice as pending changes the
\* status of one that is paid or cancelled.
THEOREM Closed == Spec => ClosedUnlessDunned
<1>1. ASSUME IInv, [Next]_vars, invoice.status \notin Payable, invoice'.status # invoice.status
      PROVE  /\ invoice'.status = "overdue" /\ invoice'.payment = invoice.payment
             /\ \E j \in Jobs : /\ job[j].pc = "mark" /\ job[j].status = "pending"
                                /\ job'[j].pc # "mark"
    <2>1. ASSUME NEW r \in Requests, Handle(r)
          PROVE  invoice'.status = invoice.status
        BY <1>1, <2>1 DEF Handle, StartCheckout, TakeLease, BindPayment, ReleaseLease, GiveUp,
                    VerifyPayment, VerifyUnheard, VerifyFails, ReleaseFailed, Settle, CreatePayment,
                    StartSettlement, Unbound, Bound, IInv, TypeOK, Invoice
    <2>2. ASSUME NEW p \in Payments, ApprovePayment(p) \/ CancelCheckout(p)
          PROVE  invoice'.status = invoice.status
        BY <1>1, <2>2 DEF ApprovePayment, CancelCheckout, IInv, TypeOK, Invoice
    <2>3. ExpireLease \/ ReadPlan \/ ChangePlan \/ UNCHANGED vars => invoice'.status = invoice.status
        BY <1>1 DEF ExpireLease, ReadPlan, ChangePlan, vars, IInv, TypeOK, Invoice
    <2>4. PICK j \in Jobs : Reconcile(j)
        BY <1>1, <2>1, <2>2, <2>3 DEF Next
    <2>5. MarkOverdue(j) /\ job[j].status = "pending"
        BY <1>1, <2>4 DEF Reconcile, FindOverdue, MarkOverdue, SuspendSubscription
    <2>6. invoice'.status = "overdue" /\ invoice'.payment = invoice.payment
        BY <1>1, <2>5 DEF MarkOverdue, IInv, TypeOK, Invoice
    <2>7. job[j].pc = "mark" /\ job'[j].pc # "mark"
        BY <1>1, <2>5 DEF MarkOverdue, IInv, TypeOK, Job
    <2> QED BY <2>5, <2>6, <2>7
<1>2. IInv /\ [Next]_vars =>
        [invoice.status \notin Payable /\ invoice'.status # invoice.status =>
         /\ invoice'.status = "overdue" /\ invoice'.payment = invoice.payment
         /\ \E j \in Jobs : job[j].pc = "mark" /\ job[j].status = "pending" /\ job'[j].pc # "mark"]_vars
    BY <1>1
<1> QED BY <1>2, Invariance, PTL DEF Spec, ClosedUnlessDunned
====
