---- MODULE CourierBooking ----
(***************************************************************************)
(* One order on its way to the courier: the desk and the payment callbacks *)
(* that move its status, the booking attempts of bookForOrder with their   *)
(* durable claim (courier_dispatch), the courier, and the courier's status *)
(* callbacks.  Orders share nothing here, so one is enough.                *)
(*                                                                         *)
(* A transaction that begins by locking the order row is one step.  Code   *)
(* that reads the row and writes it later without the lock is two steps,   *)
(* and Sequelize writes only the columns whose value differs from the one  *)
(* that was read.                                                          *)
(***************************************************************************)
EXTENDS Naturals, FiniteSets

CONSTANTS
    Actors,         \* requests that read the order and act on it
    Callbacks,      \* courier status callbacks and polls being handled
    Parcels,        \* references the courier may give out
    Faults,         \* what may go wrong: subset of FaultKinds
    MaxRestored,    \* bound: times the stock of the order is put back
    MaxUpdates      \* bound: status callbacks that are applied

FaultKinds == {"crash", "database", "courier"}

ASSUME FaultsAreKinds == Faults \subseteq FaultKinds
ASSUME BoundsAreNumbers == {MaxRestored, MaxUpdates} \subseteq Nat

VARIABLES
    order,      \* the order row
    dispatch,   \* its courier_dispatch row
    tracking,   \* delivery_tracking rows, by parcel
    sent,       \* parcels the courier has accepted
    restored,   \* times the order's stock was put back
    answered,   \* the owner answered the payment question
    updates,    \* status callbacks applied
    act,        \* what each request is doing
    callback    \* what each status callback is doing

vars == <<order, dispatch, tracking, sent, restored, answered, updates, act, callback>>

----------------------------------------------------------------------------
CONSTANTS NoParcel, Nobody
ASSUME NothingIsNobody == NoParcel \notin Parcels /\ Nobody \notin Actors

\* "processing" also stands for completed and finalized: no guard tells them
\* apart once the order is confirmed.
Status == {"draft", "confirmed", "processing", "delivered", "cancelled", "deleted"}

Terminal == {"delivered", "returned"}
CourierStatus == {"moving"} \cup Terminal
Markers == {"courier_setup_required", "confidence_hold", "dispatch_indeterminate"}

Order == [status : Status, ref : Parcels \cup {NoParcel},
          delivery : {"none", "booked"} \cup Markers \cup CourierStatus]

Dispatch == [status : {"none", "PENDING", "INDETERMINATE", "COMMITTED", "FAILED"},
             owner : Actors \cup {Nobody}, ref : Parcels \cup {NoParcel}]

Jobs == {"book", "confirm", "pay", "process"}

\* seen and ref: the status and the reference the request read.
Act == [pc : {"idle", "write", "look", "hold", "claim", "call", "row", "record",
              "commit", "refused", "doubt", "marker"},
        job : Jobs, seen : Status, ref : Parcels \cup {NoParcel}]

Callback == [pc : {"idle", "apply"}, to : CourierStatus, seen : Status,
             parcel : Parcels \cup {NoParcel}]

NoDispatch == [status |-> "none", owner |-> Nobody, ref |-> NoParcel]
NewOrder(status) == [status |-> status, ref |-> NoParcel, delivery |-> "none"]
AtRest == [pc |-> "idle", job |-> "book", seen |-> "draft", ref |-> NoParcel]
Waiting == [pc |-> "idle", to |-> "moving", seen |-> "draft", parcel |-> NoParcel]

Active == {"PENDING", "INDETERMINATE", "COMMITTED"}

TypeOK ==
    /\ order \in Order
    /\ dispatch \in Dispatch
    /\ tracking \in [Parcels -> {"none", "booked"} \cup CourierStatus]
    /\ sent \subseteq Parcels
    /\ restored \in Nat /\ updates \in Nat
    /\ answered \in BOOLEAN
    /\ act \in [Actors -> Act]
    /\ callback \in [Callbacks -> Callback]

Init ==
    /\ order \in {NewOrder("draft"), NewOrder("confirmed")}
    /\ dispatch = NoDispatch
    /\ tracking = [p \in Parcels |-> "none"]
    /\ sent = {} /\ restored = 0 /\ updates = 0 /\ answered = FALSE
    /\ act = [a \in Actors |-> AtRest]
    /\ callback = [c \in Callbacks |-> Waiting]

Exists == order.status # "deleted"

Goes(a, pc) == act' = [act EXCEPT ![a].pc = pc]
Ends(a) == act' = [act EXCEPT ![a] = AtRest]

----------------------------------------------------------------------------
(* The desk. *)

\* Mutant: only a committed dispatch counts as active.
CancelOrderInDoubt ==
    /\ Exists /\ order.status \notin {"cancelled", "delivered"}
    /\ dispatch.status # "COMMITTED"
    /\ restored < MaxRestored
    /\ order' = [order EXCEPT !.status = "cancelled"]
    /\ restored' = restored + 1
    /\ UNCHANGED <<dispatch, tracking, sent, answered, updates, act, callback>>

\* cancelOrder, and updateOrder to 'cancelled': one transaction under the row
\* lock, refused while a dispatch is active; the stock goes back with it.
CancelOrder ==
    /\ Exists /\ order.status \notin {"cancelled", "delivered"}
    /\ dispatch.status \notin Active
    /\ restored < MaxRestored
    /\ order' = [order EXCEPT !.status = "cancelled"]
    /\ restored' = restored + 1
    /\ UNCHANGED <<dispatch, tracking, sent, answered, updates, act, callback>>

\* handleOwnerResponse, under the row locks of question, order and payment.
OwnerAnswers(status) ==
    /\ Exists /\ ~answered
    /\ answered' = TRUE
    /\ order' = [order EXCEPT !.status = status]
    /\ UNCHANGED <<dispatch, tracking, sent, restored, updates, act, callback>>

\* deleteOrder: the dispatch and tracking rows go with the order.
DeleteOrder ==
    /\ Exists
    /\ order' = NewOrder("deleted")
    /\ dispatch' = NoDispatch
    /\ tracking' = [p \in Parcels |-> "none"]
    /\ UNCHANGED <<sent, restored, answered, updates, act, callback>>

\* Every request reads the order first, without a lock.  What it may do is
\* decided on what it read.
ReadOrder(a, job) ==
    /\ act[a].pc = "idle" /\ Exists
    /\ job = "confirm" => order.status = "draft"
    /\ job = "process" => order.status \notin {"cancelled", "delivered"}
    /\ act' = [act EXCEPT ![a] = [pc |-> IF job = "book" THEN "look" ELSE "write", job |-> job,
                                  seen |-> order.status, ref |-> order.ref]]
    /\ UNCHANGED <<order, dispatch, tracking, sent, restored, answered, updates, callback>>

Target(job) == IF job = "process" THEN "processing" ELSE "confirmed"

\* order.update writes the status only when it differs from the one that was
\* read; a deleted row takes no write.
Written(seen, status) ==
    IF Exists /\ seen # status THEN [order EXCEPT !.status = status] ELSE order

BookingOnly == UNCHANGED <<tracking, sent, restored, answered, updates, callback>>

\* confirmOrder and processSuccessfulPayment go on to the booking, updateOrder
\* and finalizeOrder do not.
WriteStatus(a) ==
    LET to == Target(act[a].job) IN
    /\ act[a].pc = "write"
    /\ order' = Written(act[a].seen, to)
    /\ IF act[a].job = "process" THEN Ends(a)
       ELSE act' = [act EXCEPT ![a].pc = "look", ![a].job = "book", ![a].seen = to]
    /\ UNCHANGED dispatch /\ BookingOnly

----------------------------------------------------------------------------
(* bookForOrder up to the claim. *)

\* An order that has a reference, or a committed dispatch, is answered as booked.
AlreadyBooked(a) == act[a].ref # NoParcel \/ dispatch.status = "COMMITTED"

AnswerBooked(a) ==
    /\ act[a].pc = "look" /\ AlreadyBooked(a)
    /\ Ends(a)
    /\ UNCHANGED <<order, dispatch>> /\ BookingOnly

\* No usable courier or incomplete data: markCourierSetupRequired looks again
\* under the row lock before it marks the order.
SetupRequired(a) ==
    /\ act[a].pc = "look" /\ ~AlreadyBooked(a)
    /\ act[a].seen # "draft"
    /\ IF /\ order.status \notin {"draft", "deleted"} /\ order.ref = NoParcel
          /\ dispatch.status \notin Active
       THEN order' = [order EXCEPT !.delivery = "courier_setup_required"]
       ELSE UNCHANGED order
    /\ Ends(a)
    /\ UNCHANGED dispatch /\ BookingOnly

\* The confidence gate (OrderConfidence) holds or passes; a draft goes no further.
GateHolds(a) ==
    /\ act[a].pc = "look" /\ ~AlreadyBooked(a)
    /\ Goes(a, "hold")
    /\ UNCHANGED <<order, dispatch>> /\ BookingOnly

GatePasses(a) ==
    /\ act[a].pc = "look" /\ ~AlreadyBooked(a)
    /\ IF act[a].seen = "draft" THEN Ends(a) ELSE Goes(a, "claim")
    /\ UNCHANGED <<order, dispatch>> /\ BookingOnly

\* Mutant: the marker is written whatever the order has.
MarkedBlindly(marker) == IF Exists THEN [order EXCEPT !.delivery = marker] ELSE order

\* A marker is written only over an order without a reference.
Marked(marker) ==
    IF Exists /\ order.ref = NoParcel THEN [order EXCEPT !.delivery = marker] ELSE order

MarkHold(a) ==
    /\ act[a].pc = "hold"
    /\ order' = Marked("confidence_hold")
    /\ Ends(a)
    /\ UNCHANGED dispatch /\ BookingOnly

\* The claim transaction: the order is read again under its lock, and the
\* claim is created, or reopened after a definitive rejection.  A committed
\* dispatch whose order has no reference does not occur (CommittedIsRecorded).
Bookable ==
    /\ order.status \notin {"draft", "deleted", "cancelled", "delivered"}
    /\ order.ref = NoParcel

\* Mutant: a claim in doubt is reopened like a failed one.
ClaimInDoubt(a) ==
    /\ act[a].pc = "claim"
    /\ IF Bookable /\ dispatch.status \in {"none", "FAILED", "INDETERMINATE"}
       THEN /\ dispatch' = [status |-> "PENDING", owner |-> a, ref |-> NoParcel]
            /\ act' = [act EXCEPT ![a] = [AtRest EXCEPT !.pc = "call"]]
       ELSE Ends(a) /\ UNCHANGED dispatch
    /\ UNCHANGED order /\ BookingOnly

Claim(a) ==
    /\ act[a].pc = "claim"
    /\ IF Bookable /\ dispatch.status \in {"none", "FAILED"}
       THEN /\ dispatch' = [status |-> "PENDING", owner |-> a, ref |-> NoParcel]
            /\ act' = [act EXCEPT ![a] = [AtRest EXCEPT !.pc = "call"]]
       ELSE Ends(a) /\ UNCHANGED dispatch
    /\ UNCHANGED order /\ BookingOnly

----------------------------------------------------------------------------
(* The courier, and what its answer leads to. *)

CourierOnly == UNCHANGED <<order, dispatch, tracking, restored, answered, updates, callback>>

CourierAccepts(a, p) ==
    /\ act[a].pc = "call" /\ p \notin sent
    /\ sent' = sent \cup {p}
    /\ act' = [act EXCEPT ![a].pc = "row", ![a].ref = p]
    /\ CourierOnly

\* A 4xx other than 408, 409 and 429.
CourierRejects(a) ==
    /\ act[a].pc = "call"
    /\ Goes(a, "refused")
    /\ UNCHANGED sent /\ CourierOnly

\* Mutant: a lost answer is taken for a rejection.
CourierUnclearIsRejection(a) ==
    /\ "courier" \in Faults
    /\ act[a].pc = "call"
    /\ \/ UNCHANGED sent
       \/ \E p \in Parcels \ sent : sent' = sent \cup {p}
    /\ Goes(a, "refused")
    /\ CourierOnly

\* Timeout, 5xx, an answer without a reference: the parcel may be there.
CourierUnclear(a) ==
    /\ "courier" \in Faults
    /\ act[a].pc = "call"
    /\ \/ UNCHANGED sent
       \/ \E p \in Parcels \ sent : sent' = sent \cup {p}
    /\ Goes(a, "doubt")
    /\ CourierOnly

\* createTrackingRecord: the tracking row, then the order, no transaction.
\* The row needs its order.
TrackParcel(a) ==
    /\ act[a].pc = "row"
    /\ IF Exists
       THEN tracking' = [tracking EXCEPT ![act[a].ref] = "booked"] /\ Goes(a, "record")
       ELSE UNCHANGED tracking /\ Goes(a, "doubt")
    /\ UNCHANGED <<order, dispatch, sent, restored, answered, updates, callback>>

\* Mutant: the order row is not given the reference.
RecordParcelUnnamed(a) ==
    /\ act[a].pc = "record"
    /\ order' = IF Exists THEN [order EXCEPT !.delivery = "booked"] ELSE order
    /\ Goes(a, "commit")
    /\ UNCHANGED dispatch /\ BookingOnly

RecordParcel(a) ==
    /\ act[a].pc = "record"
    /\ order' = IF Exists
                THEN [order EXCEPT !.ref = act[a].ref, !.delivery = "booked"] ELSE order
    /\ Goes(a, "commit")
    /\ UNCHANGED dispatch /\ BookingOnly

\* transitionCourierDispatch: only the owner of a claim that is still PENDING.
Owns(a) == dispatch.owner = a /\ dispatch.status = "PENDING"

\* Mutant: the reference on the claim is the courier's own status field.
CommitClaimWithStatus(a) ==
    /\ act[a].pc = "commit"
    /\ IF Owns(a)
       THEN /\ dispatch' = [dispatch EXCEPT !.status = "COMMITTED", !.ref = order.delivery]
            /\ Ends(a)
       ELSE UNCHANGED dispatch /\ Goes(a, "doubt")
    /\ UNCHANGED order /\ BookingOnly

CommitClaim(a) ==
    /\ act[a].pc = "commit"
    /\ IF Owns(a)
       THEN /\ dispatch' = [dispatch EXCEPT !.status = "COMMITTED", !.ref = act[a].ref]
            /\ Ends(a)
       ELSE UNCHANGED dispatch /\ Goes(a, "doubt")
    /\ UNCHANGED order /\ BookingOnly

FailClaim(a) ==
    /\ act[a].pc = "refused"
    /\ dispatch' = IF Owns(a) THEN [dispatch EXCEPT !.status = "FAILED"] ELSE dispatch
    /\ Ends(a)
    /\ UNCHANGED order /\ BookingOnly

DoubtClaim(a) ==
    /\ act[a].pc = "doubt"
    /\ IF Owns(a)
       THEN dispatch' = [dispatch EXCEPT !.status = "INDETERMINATE"] /\ Goes(a, "marker")
       ELSE UNCHANGED dispatch /\ Ends(a)
    /\ UNCHANGED order /\ BookingOnly

MarkDoubt(a) ==
    /\ act[a].pc = "marker"
    /\ order' = Marked("dispatch_indeterminate")
    /\ Ends(a)
    /\ UNCHANGED dispatch /\ BookingOnly

\* A write fails: while the result is persisted the booking becomes doubtful;
\* a claim or a marker that cannot be written is left as it is.
WriteFails(a) ==
    /\ "database" \in Faults
    /\ \/ act[a].pc \in {"row", "record", "commit"} /\ Goes(a, "doubt")
       \/ act[a].pc \in {"write", "hold", "claim", "refused", "doubt", "marker"} /\ Ends(a)
    /\ UNCHANGED <<order, dispatch>> /\ BookingOnly

Crash(a) ==
    /\ "crash" \in Faults
    /\ act[a].pc # "idle"
    /\ Ends(a)
    /\ UNCHANGED <<order, dispatch>> /\ BookingOnly

----------------------------------------------------------------------------
(* The courier's callbacks: handleDeliveryWebhook, also for a poll. *)

CallbackOnly == UNCHANGED <<dispatch, sent, restored, answered, act>>

\* Mutant: a status is written over whatever the tracking has.
ReadTrackingAnyhow(c, p, to) ==
    /\ callback[c].pc = "idle" /\ updates < MaxUpdates
    /\ tracking[p] # "none" /\ tracking[p] # to
    /\ callback' = [callback EXCEPT ![c] =
                      [pc |-> "apply", to |-> to, seen |-> order.status, parcel |-> p]]
    /\ updates' = updates + 1
    /\ UNCHANGED <<order, tracking>> /\ CallbackOnly

\* Nothing is written for a status the tracking already has, or over a
\* terminal one; otherwise tracking and order are written later.
ReadTracking(c, p, to) ==
    /\ callback[c].pc = "idle" /\ updates < MaxUpdates
    /\ tracking[p] # "none" /\ tracking[p] # to /\ tracking[p] \notin Terminal
    /\ callback' = [callback EXCEPT ![c] =
                      [pc |-> "apply", to |-> to, seen |-> order.status, parcel |-> p]]
    /\ updates' = updates + 1
    /\ UNCHANGED <<order, tracking>> /\ CallbackOnly

\* A parcel that comes back, or is cancelled on the way, cancels the order.
StatusAfter(seen, to) ==
    CASE to = "delivered" -> Written(seen, "delivered").status
      [] to = "returned"  -> Written(seen, "cancelled").status
      [] OTHER            -> order.status

ApplyStatus(c) ==
    LET read == callback[c] IN
    /\ read.pc = "apply"
    /\ callback' = [callback EXCEPT ![c] = Waiting]
    /\ IF Exists
       THEN /\ tracking' = [tracking EXCEPT ![read.parcel] = read.to]
            /\ order' = [order EXCEPT !.delivery = read.to,
                                      !.status = StatusAfter(read.seen, read.to)]
       ELSE UNCHANGED <<tracking, order>>
    /\ UNCHANGED updates /\ CallbackOnly

CallbackLost(c) ==
    /\ Faults \cap {"crash", "database"} # {}
    /\ callback[c].pc = "apply"
    /\ callback' = [callback EXCEPT ![c] = Waiting]
    /\ UNCHANGED <<order, tracking, updates>> /\ CallbackOnly

----------------------------------------------------------------------------
Desk ==
    \/ CancelOrder \/ DeleteOrder
    \/ \E status \in {"confirmed", "cancelled"} : OwnerAnswers(status)
    \/ \E a \in Actors, job \in Jobs : ReadOrder(a, job)

Booking(a) ==
    \/ WriteStatus(a) \/ AnswerBooked(a) \/ SetupRequired(a) \/ GateHolds(a) \/ GatePasses(a)
    \/ MarkHold(a) \/ Claim(a)
    \/ TrackParcel(a) \/ RecordParcel(a) \/ CommitClaim(a)
    \/ FailClaim(a) \/ DoubtClaim(a) \/ MarkDoubt(a)

Courier(a) ==
    \/ \E p \in Parcels : CourierAccepts(a, p)
    \/ CourierRejects(a) \/ CourierUnclear(a)

Fault(a) == WriteFails(a) \/ Crash(a)

StatusCallback(c) ==
    \/ \E p \in Parcels, to \in CourierStatus : ReadTracking(c, p, to)
    \/ ApplyStatus(c) \/ CallbackLost(c)

Next ==
    \/ Desk
    \/ \E a \in Actors : Booking(a) \/ Courier(a) \/ Fault(a)
    \/ \E c \in Callbacks : StatusCallback(c)

Spec == Init /\ [][Next]_vars

----------------------------------------------------------------------------
\* The claim as its promise sees it (OneParcel).
Phase ==
    IF ~Exists THEN "gone"
    ELSE CASE dispatch.status \in {"none", "FAILED"}  -> "open"
           [] dispatch.status = "PENDING"             -> "asked"
           [] dispatch.status = "INDETERMINATE"       -> "held"
           [] OTHER                                   -> "booked"

Promise == INSTANCE OneParcel WITH claim <- Phase, sent <- sent

\* Exactly-once booking (ADR-0007): through crashes, lost answers, retries and
\* racing requests, the courier is given one parcel of the order at most.
OneParcelPerOrder == Promise!Spec

\* A parcel the order does not name is still held by its claim: PENDING while
\* somebody may be at it, INDETERMINATE otherwise.  Nothing that looks at the
\* dispatch row takes such an order for one that is not with the courier.
ParcelIsHeld ==
    Exists => \A p \in sent : order.ref = p \/ dispatch.status \in {"PENDING", "INDETERMINATE"}

\* The claim is committed last: its parcel is the courier's, the order names
\* it, and its callbacks find a tracking row.
CommittedIsRecorded ==
    dispatch.status = "COMMITTED" =>
        /\ dispatch.ref \in sent
        /\ order.ref = dispatch.ref
        /\ tracking[dispatch.ref] # "none"

\* No marker hides that a parcel is booked.
BookedIsShown == order.ref # NoParcel => order.delivery \notin Markers

\* The stock of an order goes back only while the courier has no parcel of it
\* and nobody may still be handing one over.
RestockedOffCourier ==
    [][restored' # restored =>
         /\ sent = {}
         /\ \A a \in Actors : act[a].pc \notin {"call", "row", "record", "commit"}]_vars

\* A callback that has decided on a parcel's status and not yet written it.
Decided(cb, p) == cb.pc = "apply" /\ cb.parcel = p

\* "Terminal status preserved", as far as a guard that is read without a lock
\* goes: while its order exists, only a callback that had decided before a
\* parcel was delivered or came back can still take that back, by writing what
\* it decided, and none joins them.  Once they are through, the status is
\* final, whatever the courier sends and whatever the booking writes late.
TerminalUnlessDecided ==
    [][\A p \in Parcels : tracking[p] \in Terminal /\ Exists' =>
         /\ \A c \in Callbacks : Decided(callback'[c], p) => Decided(callback[c], p)
         /\ tracking'[p] # tracking[p] =>
              \E c \in Callbacks : /\ Decided(callback[c], p) /\ ~Decided(callback'[c], p)
                                   /\ tracking'[p] = callback[c].to]_vars
====
