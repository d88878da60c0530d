---- MODULE CourierBookingProofs ----
(***************************************************************************)
(* Proofs about the courier booking, for any requests, callbacks, parcels, *)
(* faults and bounds.                                                      *)
(*                                                                         *)
(* The argument: a request between its claim and its verdict (InFlight)    *)
(* owns the claim as long as the order exists, so there is one of them at  *)
(* most, and what the courier has accepted can be read off its step.       *)
(***************************************************************************)
EXTENDS CourierBooking, TLAPS

----------------------------------------------------------------------------
Asking == {"call", "refused"}
Handing == {"row", "record", "commit"}
InFlight == Asking \cup Handing \cup {"doubt"}

\* The claim belongs to whoever is under way with it.
Claimed == \A a \in Actors : act[a].pc \in InFlight => ~Exists \/ Owns(a)

Alone ==
    \A a, b \in Actors : act[a].pc \in InFlight /\ act[b].pc \in InFlight => a = b

\* How far a request is with the courier.
At(a) ==
    /\ act[a].pc \in Asking => sent = {}
    /\ act[a].pc \in Handing => sent = {act[a].ref} /\ act[a].ref \in Parcels
    /\ act[a].pc \in {"record", "commit"} /\ Exists => tracking[act[a].ref] # "none"
    /\ act[a].pc = "commit" /\ Exists => order.ref = act[a].ref

Progress == \A a \in Actors : At(a)

\* An open claim has sent nothing; one parcel is all there ever is.
Open == Exists /\ dispatch.status \in {"none", "FAILED"} => sent = {}
One == \A p, q \in sent : p = q

\* A reference is the courier's.  An order that is gone took its claim along.
Named == order.ref # NoParcel => order.ref \in sent
Gone == ~Exists => dispatch.status = "none"

IInv ==
    /\ TypeOK
    /\ Claimed /\ Alone /\ Progress /\ Open /\ One /\ Named /\ Gone
    /\ CommittedIsRecorded /\ BookedIsShown

----------------------------------------------------------------------------
(* What a request may do next to its own state. *)

PC == {"idle", "write", "look", "hold", "claim", "call", "row", "record",
       "commit", "refused", "doubt", "marker"}

\* Request a is at pc now; nothing else about requests changed.
MovedTo(a, pc) ==
    /\ act' \in [Actors -> Act]
    /\ act'[a].pc = pc
    /\ \A b \in Actors : b # a => act'[b] = act[b]

LEMMA GoesMoves ==
    ASSUME TypeOK, NEW a \in Actors, NEW pc \in PC, Goes(a, pc)
    PROVE  MovedTo(a, pc) /\ act'[a].ref = act[a].ref
  <1>1. act[a] \in Act BY DEF TypeOK
  <1>2. \A r \in Act : [r EXCEPT !.pc = pc] \in Act /\ [r EXCEPT !.pc = pc].pc = pc
                       /\ [r EXCEPT !.pc = pc].ref = r.ref
    BY DEF Act, PC
  <1>3. act' = [act EXCEPT ![a] = [act[a] EXCEPT !.pc = pc]] BY DEF Goes
  <1> QED BY <1>1, <1>2, <1>3 DEF TypeOK, MovedTo

LEMMA EndsMoves ==
    ASSUME TypeOK, NEW a \in Actors, Ends(a)
    PROVE  MovedTo(a, "idle")
  BY DEF TypeOK, Ends, AtRest, MovedTo, Act, Jobs, Status

----------------------------------------------------------------------------
(* Types. *)

LEMMA InitType == Init => TypeOK
  <1> SUFFICES ASSUME Init PROVE TypeOK OBVIOUS
  <1>1. order \in Order BY DEF Init, NewOrder, Order, Status
  <1>2. NoDispatch \in Dispatch BY DEF NoDispatch, Dispatch
  <1>3. AtRest \in Act BY DEF AtRest, Act, Jobs, Status
  <1>4. Waiting \in Callback BY DEF Waiting, Callback, Status, CourierStatus
  <1> QED BY <1>1, <1>2, <1>3, <1>4 DEF Init, TypeOK

\* The order keeps its type under every change the code makes to it.
LEMMA StatusType ==
    ASSUME order \in Order, NEW s \in Status
    PROVE  [order EXCEPT !.status = s] \in Order /\ NewOrder(s) \in Order
  BY DEF Order, NewOrder

LEMMA DeliveryType ==
    ASSUME order \in Order, NEW s \in Status,
           NEW d \in {"none", "booked"} \cup Markers \cup CourierStatus
    PROVE  /\ [order EXCEPT !.delivery = d] \in Order
           /\ [order EXCEPT !.delivery = d, !.status = s] \in Order
  BY DEF Order

LEMMA RecordedType ==
    ASSUME order \in Order, NEW p \in Parcels
    PROVE  [order EXCEPT !.ref = p, !.delivery = "booked"] \in Order
  BY DEF Order

LEMMA WrittenType ==
    ASSUME order \in Order, NEW seen, NEW s \in Status
    PROVE  Written(seen, s) \in Order
  BY StatusType DEF Written

LEMMA MarkedType ==
    ASSUME order \in Order, NEW m \in Markers PROVE Marked(m) \in Order
  BY DEF Marked, Order

LEMMA NewClaim ==
    ASSUME NEW a \in Actors
    PROVE  [status |-> "PENDING", owner |-> a, ref |-> NoParcel] \in Dispatch
  BY DEF Dispatch

LEMMA ClaimType ==
    ASSUME dispatch \in Dispatch, NEW s \in {"none", "PENDING", "INDETERMINATE", "COMMITTED", "FAILED"}
    PROVE  [dispatch EXCEPT !.status = s] \in Dispatch
  BY DEF Dispatch

LEMMA CommittedType ==
    ASSUME dispatch \in Dispatch, NEW p \in Parcels
    PROVE  [dispatch EXCEPT !.status = "COMMITTED", !.ref = p] \in Dispatch
  BY DEF Dispatch

LEMMA AtRestType == AtRest \in Act /\ [AtRest EXCEPT !.pc = "call"] \in Act
  BY DEF AtRest, Act, Jobs, Status

LEMMA DeskType ==
    ASSUME TypeOK,
           CancelOrder \/ DeleteOrder \/ \E s \in {"confirmed", "cancelled"} : OwnerAnswers(s)
    PROVE  TypeOK'
  <1> USE DEF TypeOK
  <1>1. CASE CancelOrder
    <2>1. order' \in Order BY <1>1, StatusType DEF CancelOrder, Status
    <2> QED BY <1>1, <2>1 DEF CancelOrder
  <1>2. CASE DeleteOrder
    <2>1. order' \in Order BY <1>2 DEF DeleteOrder, NewOrder, Order, Status
    <2>2. dispatch' \in Dispatch BY <1>2 DEF DeleteOrder, NoDispatch, Dispatch
    <2> QED BY <1>2, <2>1, <2>2 DEF DeleteOrder
  <1>3. CASE \E s \in {"confirmed", "cancelled"} : OwnerAnswers(s)
    <2>1. order' \in Order BY <1>3 DEF OwnerAnswers, Order, Status
    <2> QED BY <1>3, <2>1 DEF OwnerAnswers
  <1> QED BY <1>1, <1>2, <1>3

LEMMA ReadType ==
    ASSUME TypeOK, NEW a \in Actors, NEW job \in Jobs, ReadOrder(a, job)
    PROVE  TypeOK' /\ act'[a].pc \in {"look", "write"} /\ MovedTo(a, act'[a].pc)
  <1> DEFINE new == [pc |-> IF job = "book" THEN "look" ELSE "write", job |-> job,
                     seen |-> order.status, ref |-> order.ref]
  <1>1. new \in Act BY DEF TypeOK, Act, Order
  <1>2. act' = [act EXCEPT ![a] = new] BY DEF ReadOrder
  <1>3. new.pc \in {"look", "write"} OBVIOUS
  <1> HIDE DEF new
  <1>4. act' \in [Actors -> Act] BY <1>1, <1>2 DEF TypeOK
  <1>5. act'[a] = new /\ \A b \in Actors : b # a => act'[b] = act[b]
    BY <1>2 DEF TypeOK
  <1> QED BY <1>3, <1>4, <1>5 DEF ReadOrder, TypeOK, MovedTo

----------------------------------------------------------------------------
(* Steps that touch neither the claim nor what the courier has. *)

Steady ==
    /\ order'.ref = order.ref /\ (Exists' <=> Exists)
    /\ dispatch' = dispatch /\ sent' = sent
    /\ \A p \in Parcels : tracking[p] # "none" => tracking'[p] # "none"

\* Requests under way stay where they are, or give up in doubt, or are refused.
Calm ==
    \A b \in Actors : act'[b].pc \in InFlight =>
        /\ act'[b].ref = act[b].ref
        /\ act[b].pc \in InFlight
        /\ \/ act'[b].pc \in {act[b].pc, "doubt"}
           \/ act[b].pc \in Asking /\ act'[b].pc \in Asking

LEMMA Rests ==
    ASSUME TypeOK, NEW a \in Actors, NEW pc \in PC \ InFlight, MovedTo(a, pc) PROVE Calm
  BY DEF Calm, MovedTo

LEMMA NobodyMoves == ASSUME act' = act PROVE Calm
  BY DEF Calm

LEMMA SteadyByOrder ==
    ASSUME order'.ref = order.ref, Exists' <=> Exists,
           UNCHANGED <<dispatch, sent, tracking>>
    PROVE  Steady
  BY DEF Steady

LEMMA QuietStep ==
    ASSUME IInv, TypeOK', Steady, Calm, BookedIsShown' PROVE IInv'
  <1> USE DEF IInv
  <1>1. Claimed' BY DEF Claimed, Owns, Steady, Calm
  <1>2. Alone' BY DEF Alone, Calm
  <1>3. Progress'
    <2> SUFFICES ASSUME NEW a \in Actors PROVE At(a)' BY DEF Progress
    <2>1. act'[a].pc \in Asking => act[a].pc \in Asking BY DEF Calm, InFlight, Asking, Handing
    <2>2. act'[a].pc \in Handing => act'[a].pc = act[a].pc /\ act'[a].ref = act[a].ref
      BY DEF Calm, InFlight, Asking, Handing
    <2> QED BY <2>1, <2>2 DEF Progress, At, Steady, Handing
  <1>4. Open' /\ One' /\ Named' /\ Gone' BY DEF Open, One, Named, Gone, Steady
  <1>5. CommittedIsRecorded' BY DEF CommittedIsRecorded, Steady, TypeOK
  <1> QED BY <1>1, <1>2, <1>3, <1>4, <1>5

\* The parts of a step the lemma above asks for.
Quiet == TypeOK' /\ Steady /\ Calm /\ BookedIsShown'

LEMMA CancelQuiet == ASSUME TypeOK, BookedIsShown, CancelOrder PROVE Quiet
  <1>1. order' = [order EXCEPT !.status = "cancelled"] BY DEF CancelOrder
  <1>2. order'.ref = order.ref /\ order'.delivery = order.delivery /\ order'.status = "cancelled"
    BY <1>1 DEF TypeOK, Order
  <1>3. Steady BY <1>2, SteadyByOrder DEF CancelOrder, Exists
  <1> QED BY <1>2, <1>3, DeskType, NobodyMoves DEF Quiet, BookedIsShown, CancelOrder

LEMMA OwnerQuiet ==
    ASSUME TypeOK, BookedIsShown, NEW s \in {"confirmed", "cancelled"}, OwnerAnswers(s)
    PROVE  Quiet
  <1>1. order' = [order EXCEPT !.status = s] BY DEF OwnerAnswers
  <1>2. order'.ref = order.ref /\ order'.delivery = order.delivery /\ order'.status = s
    BY <1>1 DEF TypeOK, Order
  <1>3. Steady BY <1>2, SteadyByOrder DEF OwnerAnswers, Exists
  <1> QED BY <1>2, <1>3, DeskType, NobodyMoves DEF Quiet, BookedIsShown, OwnerAnswers

LEMMA ReadQuiet ==
    ASSUME TypeOK, BookedIsShown, NEW a \in Actors, NEW job \in Jobs, ReadOrder(a, job)
    PROVE  Quiet
  <1>1. Steady BY DEF ReadOrder, Steady, Exists
  <1>2. Calm BY ReadType DEF Calm, MovedTo, InFlight, Asking, Handing
  <1> QED BY <1>1, <1>2, ReadType DEF Quiet, BookedIsShown, ReadOrder

\* A status that is written, and a marker.
LEMMA WrittenQuiet ==
    ASSUME TypeOK, BookedIsShown, NEW seen, NEW s \in Status \ {"deleted"},
           order' = Written(seen, s)
    PROVE  /\ order' \in Order /\ order'.ref = order.ref /\ (Exists' <=> Exists)
           /\ BookedIsShown'
  <1>1. order' \in Order BY WrittenType DEF TypeOK
  <1>2. order'.ref = order.ref /\ order'.delivery = order.delivery
    BY DEF Written, TypeOK, Order
  <1>3. Exists' <=> Exists BY DEF Written, TypeOK, Order, Exists
  <1> QED BY <1>1, <1>2, <1>3 DEF BookedIsShown

LEMMA MarkedQuiet ==
    ASSUME TypeOK, BookedIsShown, NEW m \in Markers, order' = Marked(m)
    PROVE  /\ order' \in Order /\ order'.ref = order.ref /\ (Exists' <=> Exists)
           /\ BookedIsShown'
  <1>1. order' \in Order BY MarkedType DEF TypeOK
  <1>2. order'.ref = order.ref /\ order'.status = order.status
    BY DEF Marked, TypeOK, Order
  <1>3. order'.ref # NoParcel => order'.delivery = order.delivery
    BY DEF Marked, TypeOK, Order
  <1> QED BY <1>1, <1>2, <1>3 DEF BookedIsShown, Exists

LEMMA WriteQuiet ==
    ASSUME TypeOK, BookedIsShown, NEW a \in Actors, WriteStatus(a) PROVE Quiet
  <1> DEFINE to == Target(act[a].job)
             next == [act[a] EXCEPT !.pc = "look", !.job = "book", !.seen = to]
  <1>1. to \in Status \ {"deleted"} BY DEF Target, Status
  <1>2. act[a] \in Act BY DEF TypeOK
  <1>3. next \in Act /\ next.pc = "look" BY <1>1, <1>2 DEF Act, Jobs
  <1>4. order' = Written(act[a].seen, to) BY DEF WriteStatus
  <1>5. Ends(a) \/ act' = [act EXCEPT ![a] = next] BY DEF WriteStatus
  <1> HIDE DEF to, next
  <1>6. act' = [act EXCEPT ![a] = next] => MovedTo(a, "look")
    BY <1>3 DEF MovedTo, TypeOK
  <1>7. MovedTo(a, "idle") \/ MovedTo(a, "look") BY <1>5, <1>6, EndsMoves
  <1>8. Calm /\ act' \in [Actors -> Act]
    BY <1>7, Rests DEF PC, InFlight, Asking, Handing, MovedTo
  <1>9. Steady BY <1>1, <1>4, WrittenQuiet, SteadyByOrder DEF WriteStatus, BookingOnly
  <1> QED BY <1>1, <1>4, <1>8, <1>9, WrittenQuiet DEF Quiet, TypeOK, WriteStatus, BookingOnly

\* A request whose own state alone changes, to one at which it is not under way.
LEMMA MoveQuiet ==
    ASSUME TypeOK, BookedIsShown, NEW a \in Actors, NEW pc \in PC \ InFlight, MovedTo(a, pc),
           UNCHANGED order, UNCHANGED dispatch, BookingOnly
    PROVE  Quiet
  <1>1. Steady BY SteadyByOrder DEF Exists, BookingOnly
  <1> QED BY <1>1, Rests DEF Quiet, TypeOK, BookedIsShown, BookingOnly, MovedTo

LEMMA LookQuiet ==
    ASSUME TypeOK, BookedIsShown, NEW a \in Actors,
           AnswerBooked(a) \/ GateHolds(a) \/ GatePasses(a) \/ Crash(a)
    PROVE  Quiet
  <1>1. Ends(a) \/ Goes(a, "hold") \/ Goes(a, "claim")
    BY DEF AnswerBooked, GateHolds, GatePasses, Crash
  <1>2. MovedTo(a, "idle") \/ MovedTo(a, "hold") \/ MovedTo(a, "claim")
    BY <1>1, EndsMoves, GoesMoves DEF PC
  <1>3. UNCHANGED order /\ UNCHANGED dispatch /\ BookingOnly
    BY DEF AnswerBooked, GateHolds, GatePasses, Crash
  <1>4. {"idle", "hold", "claim"} \subseteq PC \ InFlight BY DEF PC, InFlight, Asking, Handing
  <1> QED BY <1>2, <1>3, <1>4, MoveQuiet

LEMMA SetupQuiet ==
    ASSUME TypeOK, BookedIsShown, NEW a \in Actors, SetupRequired(a) PROVE Quiet
  <1>1. MovedTo(a, "idle") BY EndsMoves DEF SetupRequired
  <1>2. "idle" \in PC \ InFlight BY DEF PC, InFlight, Asking, Handing
  <1>3. UNCHANGED order \/ order' = Marked("courier_setup_required")
    BY DEF SetupRequired, Marked, Exists
  <1>4. /\ order' \in Order /\ order'.ref = order.ref /\ (Exists' <=> Exists)
        /\ BookedIsShown'
    <2>1. CASE UNCHANGED order BY <2>1 DEF TypeOK, Exists, BookedIsShown
    <2>2. CASE order' = Marked("courier_setup_required")
      BY <2>2, MarkedQuiet DEF Markers
    <2> QED BY <1>3, <2>1, <2>2
  <1>5. Steady BY <1>4, SteadyByOrder DEF SetupRequired, BookingOnly
  <1> QED BY <1>1, <1>2, <1>4, <1>5, Rests
          DEF Quiet, TypeOK, MovedTo, SetupRequired, BookingOnly

LEMMA MarkQuiet ==
    ASSUME TypeOK, BookedIsShown, NEW a \in Actors, MarkHold(a) \/ MarkDoubt(a) PROVE Quiet
  <1>1. MovedTo(a, "idle") BY EndsMoves DEF MarkHold, MarkDoubt
  <1>2. "idle" \in PC \ InFlight BY DEF PC, InFlight, Asking, Handing
  <1>3. PICK m \in Markers : order' = Marked(m) BY DEF MarkHold, MarkDoubt, Markers
  <1>4. UNCHANGED dispatch /\ BookingOnly BY DEF MarkHold, MarkDoubt
  <1>5. Steady BY <1>3, <1>4, MarkedQuiet, SteadyByOrder DEF BookingOnly
  <1> QED BY <1>1, <1>2, <1>3, <1>4, <1>5, MarkedQuiet, Rests
          DEF Quiet, TypeOK, MovedTo, BookingOnly

LEMMA FailQuiet ==
    ASSUME TypeOK, BookedIsShown, NEW a \in Actors, WriteFails(a) PROVE Quiet
  <1>1. UNCHANGED <<order, dispatch>> /\ BookingOnly BY DEF WriteFails
  <1>2. Steady BY <1>1, SteadyByOrder DEF Exists, BookingOnly
  <1>3. CASE act[a].pc \in {"row", "record", "commit"} /\ Goes(a, "doubt")
    <2>1. MovedTo(a, "doubt") /\ act'[a].ref = act[a].ref BY <1>3, GoesMoves DEF PC
    <2>2. Calm BY <1>3, <2>1 DEF Calm, MovedTo, InFlight, Handing
    <2> QED BY <1>1, <1>2, <2>1, <2>2 DEF Quiet, TypeOK, BookedIsShown, BookingOnly, MovedTo
  <1>4. CASE Ends(a)
    <2>1. MovedTo(a, "idle") /\ "idle" \in PC \ InFlight
      BY <1>4, EndsMoves DEF PC, InFlight, Asking, Handing
    <2> QED BY <1>1, <2>1, MoveQuiet
  <1> QED BY <1>3, <1>4 DEF WriteFails

LEMMA RejectQuiet ==
    ASSUME TypeOK, BookedIsShown, NEW a \in Actors, CourierRejects(a) PROVE Quiet
  <1>1. MovedTo(a, "refused") /\ act'[a].ref = act[a].ref
    BY GoesMoves DEF CourierRejects, PC
  <1>2. Calm BY <1>1 DEF Calm, MovedTo, CourierRejects, InFlight, Asking
  <1>3. Steady BY SteadyByOrder DEF Exists, CourierRejects, CourierOnly
  <1> QED BY <1>1, <1>2, <1>3
          DEF Quiet, TypeOK, BookedIsShown, CourierRejects, CourierOnly, MovedTo

LEMMA CallbackReadQuiet ==
    ASSUME TypeOK, BookedIsShown, NEW c \in Callbacks, NEW p \in Parcels,
           NEW to \in CourierStatus, ReadTracking(c, p, to)
    PROVE  Quiet
  <1>1. [pc |-> "apply", to |-> to, seen |-> order.status, parcel |-> p] \in Callback
    BY DEF TypeOK, Callback, Order
  <1>2. TypeOK' BY <1>1 DEF ReadTracking, CallbackOnly, TypeOK
  <1>3. Steady BY SteadyByOrder DEF Exists, ReadTracking, CallbackOnly
  <1> QED BY <1>2, <1>3, NobodyMoves DEF Quiet, BookedIsShown, ReadTracking, CallbackOnly

LEMMA WaitingType == Waiting \in Callback
  BY DEF Waiting, Callback, Status, CourierStatus

LEMMA LostQuiet ==
    ASSUME TypeOK, BookedIsShown, NEW c \in Callbacks, CallbackLost(c) PROVE Quiet
  <1>1. TypeOK' BY WaitingType DEF CallbackLost, CallbackOnly, TypeOK
  <1>2. Steady BY SteadyByOrder DEF Exists, CallbackLost, CallbackOnly
  <1> QED BY <1>1, <1>2, NobodyMoves DEF Quiet, BookedIsShown, CallbackLost, CallbackOnly

LEMMA StatusAfterType ==
    ASSUME TypeOK, NEW seen, NEW to, Exists PROVE StatusAfter(seen, to) \in Status \ {"deleted"}
  <1>1. order.status \in Status \ {"deleted"} BY DEF TypeOK, Order, Exists
  <1>2. \A s \in Status \ {"deleted"} : Written(seen, s).status \in Status \ {"deleted"}
    BY <1>1 DEF Written, TypeOK, Order
  <1> QED BY <1>1, <1>2 DEF StatusAfter, Status

LEMMA ApplyQuiet ==
    ASSUME TypeOK, BookedIsShown, NEW c \in Callbacks, ApplyStatus(c) PROVE Quiet
  <1> DEFINE read == callback[c]
  <1>1. read \in Callback BY DEF TypeOK
  <1>2. callback' \in [Callbacks -> Callback] BY WaitingType DEF ApplyStatus, TypeOK
  <1>3. CASE Exists
    <2> DEFINE s == StatusAfter(read.seen, read.to)
    <2>1. s \in Status \ {"deleted"} BY <1>3, StatusAfterType
    <2>2. read.to \in CourierStatus BY <1>1 DEF Callback
    <2>3. order' = [order EXCEPT !.delivery = read.to, !.status = s]
      BY <1>3 DEF ApplyStatus
    <2>4. order' \in Order BY <2>1, <2>2, <2>3, DeliveryType DEF TypeOK
    <2>5. order'.ref = order.ref /\ order'.delivery = read.to /\ order'.status = s
      BY <2>3 DEF TypeOK, Order
    <2>6. tracking' = [tracking EXCEPT ![read.parcel] = read.to] BY <1>3 DEF ApplyStatus
    <2>7. /\ tracking' \in [Parcels -> {"none", "booked"} \cup CourierStatus]
          /\ \A p \in Parcels : tracking[p] # "none" => tracking'[p] # "none"
      BY <2>2, <2>6 DEF TypeOK, CourierStatus, Terminal
    <2>8. Steady BY <1>3, <2>1, <2>5, <2>7 DEF Steady, Exists, ApplyStatus, CallbackOnly
    <2>9. BookedIsShown' BY <2>2, <2>5 DEF BookedIsShown, CourierStatus, Terminal, Markers
    <2> QED BY <1>2, <2>4, <2>7, <2>8, <2>9, NobodyMoves
            DEF Quiet, TypeOK, ApplyStatus, CallbackOnly
  <1>4. CASE ~Exists
    <2>1. UNCHANGED <<tracking, order>> BY <1>4 DEF ApplyStatus
    <2>2. Steady BY <2>1, SteadyByOrder DEF Exists, ApplyStatus, CallbackOnly
    <2> QED BY <1>2, <2>1, <2>2, NobodyMoves
            DEF Quiet, TypeOK, BookedIsShown, ApplyStatus, CallbackOnly
  <1> QED BY <1>3, <1>4

----------------------------------------------------------------------------
(* Steps of the one request that is under way. *)

\* Nobody but a is under way after the step.
Only(a) == \A b \in Actors : b # a => act'[b].pc \notin InFlight

LEMMA OnlyOne ==
    ASSUME NEW a \in Actors, NEW pc, MovedTo(a, pc), Alone, act[a].pc \in InFlight
    PROVE  Only(a)
  BY DEF Only, MovedTo, Alone

LEMMA ByOne ==
    ASSUME NEW a \in Actors, Only(a), At(a)',
           act'[a].pc \in InFlight => ~Exists' \/ Owns(a)'
    PROVE  Claimed' /\ Alone' /\ Progress'
  <1>1. \A b \in Actors : b # a => At(b)'
    BY DEF Only, At, InFlight, Handing
  <1> QED BY <1>1 DEF Only, Claimed, Alone, Progress

LEMMA DeleteStep == ASSUME IInv, DeleteOrder PROVE IInv'
  <1> USE DEF IInv
  <1>1. TypeOK' BY DeskType
  <1>2. /\ order'.status = "deleted" /\ order'.ref = NoParcel /\ order'.delivery = "none"
        /\ dispatch'.status = "none" /\ sent' = sent /\ act' = act
    BY DEF DeleteOrder, NewOrder, NoDispatch
  <1>3. Claimed' /\ Alone' BY <1>2 DEF Claimed, Alone, Exists
  <1>4. Progress' BY <1>2 DEF Progress, At, Exists
  <1>5. Open' /\ One' /\ Named' /\ Gone' BY <1>2 DEF Open, One, Named, Gone, Exists
  <1>6. CommittedIsRecorded' /\ BookedIsShown' BY <1>2 DEF CommittedIsRecorded, BookedIsShown
  <1> QED BY <1>1, <1>3, <1>4, <1>5, <1>6

LEMMA ClaimStep == ASSUME IInv, NEW a \in Actors, Claim(a) PROVE IInv'
  <1> USE DEF IInv
  <1> DEFINE new == [AtRest EXCEPT !.pc = "call"]
  <1>1. CASE Bookable /\ dispatch.status \in {"none", "FAILED"}
    <2>1. dispatch' = [status |-> "PENDING", owner |-> a, ref |-> NoParcel]
      BY <1>1 DEF Claim
    <2>2. act' = [act EXCEPT ![a] = new] BY <1>1 DEF Claim
    <2>3. new \in Act /\ new.pc = "call" BY AtRestType DEF AtRest
    <2> HIDE DEF new
    <2>4. MovedTo(a, "call") BY <2>2, <2>3 DEF MovedTo, TypeOK
    <2>5. TypeOK' BY <2>1, <2>4, NewClaim DEF Claim, BookingOnly, TypeOK, MovedTo
    <2>6. Exists /\ sent = {} BY <1>1 DEF Open, Bookable, Exists
    <2>7. \A b \in Actors : act[b].pc \notin InFlight BY <1>1, <2>6 DEF Claimed, Owns
    <2>8. Only(a) BY <2>4, <2>7 DEF Only, MovedTo
    <2>9. At(a)' BY <2>4, <2>6 DEF At, MovedTo, Asking, Handing, Claim, BookingOnly
    <2>10. Owns(a)' BY <2>1 DEF Owns
    <2>11. Claimed' /\ Alone' /\ Progress' BY <2>8, <2>9, <2>10, ByOne
    <2>12. Open' /\ One' /\ Named' /\ Gone' /\ CommittedIsRecorded' /\ BookedIsShown'
      BY <2>1, <2>6 DEF Open, One, Named, Gone, CommittedIsRecorded, BookedIsShown, Claim,
                        BookingOnly, Exists
    <2> QED BY <2>5, <2>11, <2>12
  <1>2. CASE Ends(a) /\ UNCHANGED dispatch
    <2>1. MovedTo(a, "idle") /\ "idle" \in PC \ InFlight
      BY <1>2, EndsMoves DEF PC, InFlight, Asking, Handing
    <2>2. Quiet BY <1>2, <2>1, MoveQuiet DEF Claim
    <2> QED BY <2>2, QuietStep DEF Quiet
  <1> QED BY <1>1, <1>2 DEF Claim

\* The courier takes the parcel of a request that asked, or says nothing clear.
LEMMA SentStep ==
    ASSUME IInv, NEW a \in Actors, NEW p \in Parcels, act[a].pc = "call", sent' = sent \cup {p},
           CourierOnly, TypeOK',
           \/ MovedTo(a, "row") /\ act'[a].ref = p
           \/ MovedTo(a, "doubt")
    PROVE  IInv'
  <1> USE DEF IInv
  <1>1. act[a].pc \in InFlight /\ sent = {}
    BY DEF Progress, At, InFlight, Asking
  <1>2. Only(a) BY <1>1, OnlyOne
  <1>3. At(a)' BY <1>1 DEF At, MovedTo, Asking, Handing
  <1>4. ~Exists' \/ Owns(a)' BY <1>1 DEF Claimed, Owns, CourierOnly, Exists
  <1>5. Claimed' /\ Alone' /\ Progress' BY <1>2, <1>3, <1>4, ByOne
  <1>6. Open' BY <1>4 DEF Open, Owns
  <1>7. One' /\ Named' /\ Gone' /\ CommittedIsRecorded' /\ BookedIsShown'
    BY <1>1 DEF One, Named, Gone, CommittedIsRecorded, BookedIsShown, CourierOnly, Exists
  <1> QED BY <1>5, <1>6, <1>7

LEMMA AcceptStep ==
    ASSUME IInv, NEW a \in Actors, NEW p \in Parcels, CourierAccepts(a, p) PROVE IInv'
  <1>0. TypeOK BY DEF IInv
  <1>1. \A r \in Act : [r EXCEPT !.pc = "row", !.ref = p] \in Act
                       /\ [r EXCEPT !.pc = "row", !.ref = p].pc = "row"
                       /\ [r EXCEPT !.pc = "row", !.ref = p].ref = p
    BY DEF Act
  <1>2. act' = [act EXCEPT ![a] = [act[a] EXCEPT !.pc = "row", !.ref = p]]
    BY DEF CourierAccepts
  <1>3. MovedTo(a, "row") /\ act'[a].ref = p BY <1>0, <1>1, <1>2 DEF MovedTo, TypeOK
  <1>4. TypeOK' BY <1>0, <1>3 DEF CourierAccepts, CourierOnly, TypeOK, MovedTo
  <1> QED BY <1>3, <1>4, SentStep DEF CourierAccepts

LEMMA UnclearStep ==
    ASSUME IInv, NEW a \in Actors, CourierUnclear(a) PROVE IInv'
  <1>0. TypeOK BY DEF IInv
  <1>1. MovedTo(a, "doubt") /\ act'[a].ref = act[a].ref
    BY <1>0, GoesMoves DEF CourierUnclear, PC
  <1>2. TypeOK' BY <1>0, <1>1 DEF CourierUnclear, CourierOnly, TypeOK, MovedTo
  <1>3. CASE UNCHANGED sent
    <2>1. Calm BY <1>1 DEF Calm, MovedTo, CourierUnclear, InFlight, Asking
    <2>2. Steady BY <1>3, SteadyByOrder DEF Exists, CourierUnclear, CourierOnly
    <2>3. BookedIsShown' BY DEF IInv, BookedIsShown, CourierUnclear, CourierOnly
    <2> QED BY <1>2, <2>1, <2>2, <2>3, QuietStep
  <1>4. CASE \E p \in Parcels \ sent : sent' = sent \cup {p}
    <2>1. PICK p \in Parcels \ sent : sent' = sent \cup {p} BY <1>4
    <2> QED BY <1>1, <1>2, <2>1, SentStep DEF CourierUnclear
  <1> QED BY <1>3, <1>4 DEF CourierUnclear

LEMMA TrackStep == ASSUME IInv, NEW a \in Actors, TrackParcel(a) PROVE IInv'
  <1> USE DEF IInv
  <1>1. /\ act[a].pc \in InFlight /\ act[a].ref \in Parcels /\ sent = {act[a].ref}
    BY DEF TrackParcel, Progress, At, InFlight, Handing
  <1>2. CASE Exists
    <2>1. MovedTo(a, "record") /\ act'[a].ref = act[a].ref
      BY <1>2, GoesMoves DEF TrackParcel, PC
    <2>2. tracking' = [tracking EXCEPT ![act[a].ref] = "booked"] BY <1>2 DEF TrackParcel
    <2>3. /\ tracking' \in [Parcels -> {"none", "booked"} \cup CourierStatus]
          /\ tracking'[act[a].ref] # "none"
          /\ \A p \in Parcels : tracking[p] # "none" => tracking'[p] # "none"
      BY <1>1, <2>2 DEF TypeOK
    <2>4. TypeOK' BY <2>1, <2>3 DEF TrackParcel, TypeOK, MovedTo
    <2>5. Only(a) BY <1>1, <2>1, OnlyOne
    <2>6. At(a)' BY <1>1, <2>1, <2>3 DEF At, MovedTo, Asking, Handing, TrackParcel
    <2>7. Owns(a)' BY <1>1, <1>2 DEF Claimed, Owns, TrackParcel
    <2>8. Claimed' /\ Alone' /\ Progress' BY <2>5, <2>6, <2>7, ByOne
    <2>9. Open' /\ One' /\ Named' /\ Gone' /\ CommittedIsRecorded' /\ BookedIsShown'
      BY <2>7 DEF Open, One, Named, Gone, CommittedIsRecorded, BookedIsShown, TrackParcel,
                  Exists, Owns
    <2> QED BY <2>4, <2>8, <2>9
  <1>3. CASE ~Exists
    <2>1. MovedTo(a, "doubt") /\ act'[a].ref = act[a].ref
      BY <1>3, GoesMoves DEF TrackParcel, PC
    <2>2. Calm BY <1>1, <2>1 DEF Calm, MovedTo
    <2>3. UNCHANGED <<order, dispatch, sent, restored, answered, updates, callback, tracking>>
      BY <1>3 DEF TrackParcel
    <2>4. Steady BY <2>3, SteadyByOrder DEF Exists
    <2>5. TypeOK' BY <2>1, <2>3 DEF TypeOK, MovedTo
    <2> QED BY <2>2, <2>3, <2>4, <2>5, QuietStep DEF BookedIsShown
  <1> QED BY <1>2, <1>3

LEMMA RecordStep == ASSUME IInv, NEW a \in Actors, RecordParcel(a) PROVE IInv'
  <1> USE DEF IInv
  <1>1. act[a].pc \in InFlight /\ act[a].ref \in Parcels /\ sent = {act[a].ref}
    BY DEF RecordParcel, Progress, At, InFlight, Handing
  <1>2. MovedTo(a, "commit") /\ act'[a].ref = act[a].ref BY GoesMoves DEF RecordParcel, PC
  <1>3. Exists => /\ order' \in Order /\ order'.ref = act[a].ref
                  /\ order'.delivery = "booked" /\ order'.status = order.status
    BY <1>1, RecordedType DEF RecordParcel, TypeOK, Order
  <1>4. ~Exists => order' = order BY DEF RecordParcel
  <1>5. TypeOK' BY <1>2, <1>3, <1>4 DEF RecordParcel, BookingOnly, TypeOK, MovedTo
  <1>6. Exists' <=> Exists BY <1>3, <1>4 DEF Exists
  <1>7. Only(a) BY <1>1, <1>2, OnlyOne
  <1>8. At(a)
    BY DEF Progress
  <1>9. At(a)' BY <1>1, <1>2, <1>3, <1>6, <1>8
               DEF At, MovedTo, Asking, Handing, RecordParcel, BookingOnly
  <1>10. ~Exists' \/ Owns(a)' BY <1>1, <1>6 DEF Claimed, Owns, RecordParcel
  <1>11. Claimed' /\ Alone' /\ Progress' BY <1>7, <1>9, <1>10, ByOne
  <1>12. Open' /\ One' /\ Gone'
    BY <1>6 DEF Open, One, Gone, RecordParcel, BookingOnly
  <1>13. Named' BY <1>1, <1>3, <1>4 DEF Named, RecordParcel, BookingOnly
  <1>14. CommittedIsRecorded'
    BY <1>4, <1>6, <1>10 DEF CommittedIsRecorded, RecordParcel, BookingOnly, Owns, Gone
  <1>15. BookedIsShown' BY <1>3, <1>4 DEF BookedIsShown, Markers
  <1> QED BY <1>5, <1>11, <1>12, <1>13, <1>14, <1>15

\* A verdict on the claim: the request owned it, and is done with it.
LEMMA VerdictStep ==
    ASSUME IInv, NEW a \in Actors, act[a].pc \in InFlight, Owns(a),
           NEW pc \in PC \ InFlight, MovedTo(a, pc), UNCHANGED order, BookingOnly,
           dispatch' \in Dispatch,
           \/ dispatch'.status = "FAILED" /\ sent = {}
           \/ dispatch'.status = "INDETERMINATE"
           \/ dispatch'.status = "COMMITTED" /\ CommittedIsRecorded'
    PROVE  IInv'
  <1> USE DEF IInv
  <1>1. TypeOK' BY DEF TypeOK, BookingOnly, MovedTo
  <1>2. Only(a) BY OnlyOne
  <1>3. act'[a].pc \notin InFlight BY DEF MovedTo
  <1>4. At(a)' BY <1>3 DEF At, InFlight, Handing
  <1>5. Claimed' /\ Alone' /\ Progress' BY <1>2, <1>3, <1>4, ByOne
  <1>6. Exists BY DEF Owns, Gone
  <1>7. Open' /\ One' /\ Named' /\ Gone' /\ BookedIsShown'
    BY <1>6 DEF Open, One, Named, Gone, BookedIsShown, BookingOnly, Exists
  <1>8. CommittedIsRecorded' BY DEF CommittedIsRecorded
  <1> QED BY <1>1, <1>5, <1>7, <1>8

\* A verdict that comes too late: the claim is not the request's any more.
LEMMA TooLate ==
    ASSUME IInv, NEW a \in Actors, act[a].pc \in InFlight, NEW pc, MovedTo(a, pc),
           pc \in PC \ InFlight \/ pc = "doubt", act'[a].ref = act[a].ref \/ pc \in PC \ InFlight,
           UNCHANGED <<order, dispatch>>, BookingOnly
    PROVE  IInv'
  <1> USE DEF IInv
  <1>1. TypeOK' BY DEF TypeOK, BookingOnly, MovedTo
  <1>2. Calm BY DEF Calm, MovedTo
  <1>3. Steady BY SteadyByOrder DEF Exists, BookingOnly
  <1> QED BY <1>1, <1>2, <1>3, QuietStep DEF BookedIsShown

LEMMA CommitStep == ASSUME IInv, NEW a \in Actors, CommitClaim(a) PROVE IInv'
  <1> USE DEF IInv
  <1>1. act[a].pc \in InFlight /\ At(a) BY DEF CommitClaim, Progress, InFlight, Handing
  <1>2. CASE Owns(a)
    <2>1. MovedTo(a, "idle") /\ "idle" \in PC \ InFlight
      BY <1>2, EndsMoves DEF CommitClaim, PC, InFlight, Asking, Handing
    <2>2. dispatch' = [dispatch EXCEPT !.status = "COMMITTED", !.ref = act[a].ref]
      BY <1>2 DEF CommitClaim
    <2>3. act[a].ref \in Parcels /\ sent = {act[a].ref} BY <1>1 DEF At, CommitClaim, Handing
    <2>4. dispatch' \in Dispatch /\ dispatch'.status = "COMMITTED" /\ dispatch'.ref = act[a].ref
      BY <2>2, <2>3, CommittedType DEF TypeOK, Dispatch
    <2>5. Exists BY <1>2 DEF Owns, Gone
    <2>6. CommittedIsRecorded'
      BY <1>1, <2>3, <2>4, <2>5 DEF At, CommitClaim, BookingOnly, CommittedIsRecorded
    <2> QED BY <1>1, <1>2, <2>1, <2>4, <2>6, VerdictStep DEF CommitClaim
  <1>3. CASE ~Owns(a)
    <2>1. MovedTo(a, "doubt") /\ act'[a].ref = act[a].ref
      BY <1>3, GoesMoves DEF CommitClaim, PC
    <2> QED BY <1>1, <1>3, <2>1, TooLate DEF CommitClaim
  <1> QED BY <1>2, <1>3

LEMMA FailStep == ASSUME IInv, NEW a \in Actors, FailClaim(a) PROVE IInv'
  <1> USE DEF IInv
  <1>1. act[a].pc \in InFlight /\ At(a) BY DEF FailClaim, Progress, InFlight, Asking
  <1>2. MovedTo(a, "idle") /\ "idle" \in PC \ InFlight
    BY EndsMoves DEF FailClaim, PC, InFlight, Asking, Handing
  <1>3. CASE Owns(a)
    <2>1. dispatch' \in Dispatch /\ dispatch'.status = "FAILED"
      BY <1>3, ClaimType DEF FailClaim, TypeOK, Dispatch
    <2>2. sent = {} BY <1>1 DEF At, FailClaim, Asking
    <2> QED BY <1>1, <1>2, <1>3, <2>1, <2>2, VerdictStep DEF FailClaim
  <1>4. CASE ~Owns(a) BY <1>1, <1>2, <1>4, TooLate DEF FailClaim
  <1> QED BY <1>3, <1>4

LEMMA DoubtStep == ASSUME IInv, NEW a \in Actors, DoubtClaim(a) PROVE IInv'
  <1> USE DEF IInv
  <1>1. act[a].pc \in InFlight BY DEF DoubtClaim, InFlight
  <1>2. {"idle", "marker"} \subseteq PC \ InFlight BY DEF PC, InFlight, Asking, Handing
  <1>3. CASE Owns(a)
    <2>1. MovedTo(a, "marker") BY <1>2, <1>3, GoesMoves DEF DoubtClaim
    <2>2. dispatch' \in Dispatch /\ dispatch'.status = "INDETERMINATE"
      BY <1>3, ClaimType DEF DoubtClaim, TypeOK, Dispatch
    <2> QED BY <1>1, <1>2, <1>3, <2>1, <2>2, VerdictStep DEF DoubtClaim
  <1>4. CASE ~Owns(a)
    <2>1. MovedTo(a, "idle") BY <1>4, EndsMoves DEF DoubtClaim
    <2> QED BY <1>1, <1>2, <1>4, <2>1, TooLate DEF DoubtClaim
  <1> QED BY <1>3, <1>4

----------------------------------------------------------------------------
(* The invariant. *)

LEMMA InitInv == Init => IInv
  <1> SUFFICES ASSUME Init PROVE IInv OBVIOUS
  <1>1. /\ order.ref = NoParcel /\ order.status # "deleted" /\ dispatch.status = "none"
        /\ sent = {} /\ \A a \in Actors : act[a].pc = "idle"
    BY DEF Init, NewOrder, NoDispatch, AtRest
  <1>2. Claimed /\ Alone /\ Progress
    BY <1>1 DEF Claimed, Alone, Progress, At, InFlight, Asking, Handing
  <1>3. Open /\ One /\ Named /\ Gone /\ CommittedIsRecorded /\ BookedIsShown
    BY <1>1 DEF Open, One, Named, Gone, CommittedIsRecorded, BookedIsShown, Exists
  <1> QED BY <1>2, <1>3, InitType DEF IInv

LEMMA QuietKeeps == ASSUME IInv, Quiet PROVE IInv'
  BY QuietStep DEF Quiet

LEMMA DeskStep == ASSUME IInv, Desk PROVE IInv'
  <1>1. TypeOK /\ BookedIsShown BY DEF IInv
  <1>2. CASE CancelOrder BY <1>1, <1>2, CancelQuiet, QuietKeeps
  <1>3. CASE DeleteOrder BY <1>3, DeleteStep
  <1>4. ASSUME NEW s \in {"confirmed", "cancelled"}, OwnerAnswers(s) PROVE IInv'
    BY <1>1, <1>4, OwnerQuiet, QuietKeeps
  <1>5. ASSUME NEW a \in Actors, NEW job \in Jobs, ReadOrder(a, job) PROVE IInv'
    BY <1>1, <1>5, ReadQuiet, QuietKeeps
  <1> QED BY <1>2, <1>3, <1>4, <1>5 DEF Desk

LEMMA BookingStep == ASSUME IInv, NEW a \in Actors, Booking(a) PROVE IInv'
  <1>1. TypeOK /\ BookedIsShown BY DEF IInv
  <1>2. CASE WriteStatus(a) BY <1>1, <1>2, WriteQuiet, QuietKeeps
  <1>3. CASE AnswerBooked(a) \/ GateHolds(a) \/ GatePasses(a)
    BY <1>1, <1>3, LookQuiet, QuietKeeps
  <1>4. CASE SetupRequired(a) BY <1>1, <1>4, SetupQuiet, QuietKeeps
  <1>5. CASE MarkHold(a) \/ MarkDoubt(a) BY <1>1, <1>5, MarkQuiet, QuietKeeps
  <1>6. CASE Claim(a) BY <1>6, ClaimStep
  <1>7. CASE TrackParcel(a) BY <1>7, TrackStep
  <1>8. CASE RecordParcel(a) BY <1>8, RecordStep
  <1>9. CASE CommitClaim(a) BY <1>9, CommitStep
  <1>10. CASE FailClaim(a) BY <1>10, FailStep
  <1>11. CASE DoubtClaim(a) BY <1>11, DoubtStep
  <1> QED BY <1>2, <1>3, <1>4, <1>5, <1>6, <1>7, <1>8, <1>9, <1>10, <1>11 DEF Booking

LEMMA CourierStep == ASSUME IInv, NEW a \in Actors, Courier(a) PROVE IInv'
  <1>1. ASSUME NEW p \in Parcels, CourierAccepts(a, p) PROVE IInv' BY <1>1, AcceptStep
  <1>2. CASE CourierRejects(a) BY <1>2, RejectQuiet, QuietKeeps DEF IInv
  <1>3. CASE CourierUnclear(a) BY <1>3, UnclearStep
  <1> QED BY <1>1, <1>2, <1>3 DEF Courier

LEMMA FaultStep == ASSUME IInv, NEW a \in Actors, Fault(a) PROVE IInv'
  BY FailQuiet, LookQuiet, QuietKeeps DEF Fault, IInv

LEMMA CallbackStep == ASSUME IInv, NEW c \in Callbacks, StatusCallback(c) PROVE IInv'
  <1>1. ASSUME NEW p \in Parcels, NEW to \in CourierStatus, ReadTracking(c, p, to) PROVE IInv'
    BY <1>1, CallbackReadQuiet, QuietKeeps DEF IInv
  <1>2. CASE ApplyStatus(c) BY <1>2, ApplyQuiet, QuietKeeps DEF IInv
  <1>3. CASE CallbackLost(c) BY <1>3, LostQuiet, QuietKeeps DEF IInv
  <1> QED BY <1>1, <1>2, <1>3 DEF StatusCallback

LEMMA StutterStep == ASSUME IInv, UNCHANGED vars PROVE IInv'
  <1>1. TypeOK' BY DEF IInv, TypeOK, vars
  <1>2. Steady BY SteadyByOrder DEF Exists, vars
  <1> QED BY <1>1, <1>2, NobodyMoves, QuietStep DEF IInv, BookedIsShown, vars

LEMMA Step == IInv /\ [Next]_vars => IInv'
  BY DeskStep, BookingStep, CourierStep, FaultStep, CallbackStep, StutterStep DEF Next

LEMMA Invariance == Spec => []IInv
  BY InitInv, Step, PTL DEF Spec

----------------------------------------------------------------------------
\* Every variable keeps its type.
THEOREM Typing == Spec => []TypeOK
  <1>1. IInv => TypeOK BY DEF IInv
  <1> QED BY <1>1, Invariance, PTL

\* A committed claim, the order and the tracking row agree on a parcel the
\* courier has.
THEOREM Recorded == Spec => []CommittedIsRecorded
  <1>1. IInv => CommittedIsRecorded BY DEF IInv
  <1> QED BY <1>1, Invariance, PTL

\* A booked order carries no marker that says otherwise.
THEOREM Shown == Spec => []BookedIsShown
  <1>1. IInv => BookedIsShown BY DEF IInv
  <1> QED BY <1>1, Invariance, PTL

\* A parcel the order does not name is still held by its claim.
THEOREM Held == Spec => []ParcelIsHeld
  <1>1. IInv => ParcelIsHeld
    BY DEF IInv, ParcelIsHeld, TypeOK, Dispatch, Open, CommittedIsRecorded, One
  <1> QED BY <1>1, Invariance, PTL

LEMMA RestockStep ==
    IInv /\ [Next]_vars =>
        (restored' # restored =>
            /\ sent = {}
            /\ \A a \in Actors : act[a].pc \notin {"call", "row", "record", "commit"})
  <1> SUFFICES ASSUME IInv, [Next]_vars, restored' # restored
      PROVE  sent = {} /\ \A a \in Actors : act[a].pc \notin {"call", "row", "record", "commit"}
    OBVIOUS
  <1>1. CancelOrder
    BY DEF Next, Desk, Booking, Courier, Fault, StatusCallback, vars, DeleteOrder,
           OwnerAnswers, ReadOrder, WriteStatus, AnswerBooked, SetupRequired, GateHolds,
           GatePasses, MarkHold, Claim, TrackParcel, RecordParcel, CommitClaim, FailClaim,
           DoubtClaim, MarkDoubt, CourierAccepts, CourierRejects, CourierUnclear, WriteFails,
           Crash, ReadTracking, ApplyStatus, CallbackLost, BookingOnly, CourierOnly,
           CallbackOnly
  <1>2. Exists /\ dispatch.status \in {"none", "FAILED"}
    BY <1>1 DEF CancelOrder, IInv, TypeOK, Dispatch, Active
  <1>3. sent = {} BY <1>2 DEF IInv, Open
  <1>4. \A a \in Actors : act[a].pc \notin InFlight BY <1>2 DEF IInv, Claimed, Owns
  <1> QED BY <1>3, <1>4 DEF InFlight, Asking, Handing

\* The stock goes back only when the courier has nothing and will be given
\* nothing by a request under way.
THEOREM Restocked == Spec => RestockedOffCourier
  BY Invariance, RestockStep, PTL DEF Spec, RestockedOffCourier

----------------------------------------------------------------------------
(* The claim keeps its promise. *)

Stays == Phase' = Phase /\ sent' = sent

LEMMA SteadyStays == ASSUME Steady PROVE Stays
  BY DEF Steady, Stays, Phase, Exists

\* A step that leaves the order where it is, the claim and the courier alone.
LEMMA UnchangedStays ==
    ASSUME Exists' <=> Exists, UNCHANGED <<dispatch, sent>> PROVE Stays
  BY DEF Stays, Phase, Exists

LEMMA QuietSteps ==
    ASSUME IInv, NEW a \in Actors,
           WriteStatus(a) \/ AnswerBooked(a) \/ SetupRequired(a) \/ GateHolds(a)
           \/ GatePasses(a) \/ MarkHold(a) \/ MarkDoubt(a) \/ Fault(a) \/ CourierRejects(a)
    PROVE  Stays
  <1>1. TypeOK /\ BookedIsShown BY DEF IInv
  <1>2. CASE WriteStatus(a) BY <1>1, <1>2, WriteQuiet, SteadyStays DEF Quiet
  <1>3. CASE AnswerBooked(a) \/ GateHolds(a) \/ GatePasses(a)
    BY <1>1, <1>3, LookQuiet, SteadyStays DEF Quiet
  <1>4. CASE SetupRequired(a) BY <1>1, <1>4, SetupQuiet, SteadyStays DEF Quiet
  <1>5. CASE MarkHold(a) \/ MarkDoubt(a) BY <1>1, <1>5, MarkQuiet, SteadyStays DEF Quiet
  <1>6. CASE Fault(a) BY <1>1, <1>6, LookQuiet, FailQuiet, SteadyStays DEF Quiet, Fault
  <1>7. CASE CourierRejects(a) BY <1>1, <1>7, RejectQuiet, SteadyStays DEF Quiet
  <1> QED BY <1>2, <1>3, <1>4, <1>5, <1>6, <1>7

LEMMA ClaimPromise == ASSUME IInv, NEW a \in Actors, Claim(a) PROVE Promise!Ask \/ Stays
  <1>1. CASE Bookable /\ dispatch.status \in {"none", "FAILED"}
    <2>1. dispatch'.status = "PENDING" /\ order' = order /\ sent' = sent
      BY <1>1 DEF Claim, BookingOnly
    <2> QED BY <1>1, <2>1 DEF Promise!Ask, Phase, Exists, Bookable
  <1>2. CASE Ends(a) /\ UNCHANGED dispatch
    BY <1>2, UnchangedStays DEF Claim, BookingOnly, Exists
  <1> QED BY <1>1, <1>2 DEF Claim

LEMMA SendPromise ==
    ASSUME IInv, NEW a \in Actors, NEW p \in Parcels, act[a].pc = "call",
           sent' = sent \cup {p}, CourierOnly
    PROVE  Promise!Send
  <1>1. sent = {} /\ (~Exists \/ Owns(a))
    BY DEF IInv, Progress, At, Claimed, InFlight, Asking
  <1>2. sent' = {p} BY <1>1
  <1>3. Phase' = Phase BY DEF CourierOnly, Phase, Exists
  <1>4. Phase \in {"asked", "gone"} BY <1>1 DEF Phase, Owns
  <1> QED BY <1>1, <1>2, <1>3, <1>4 DEF Promise!Send

LEMMA PassPromise ==
    ASSUME IInv, NEW a \in Actors, TrackParcel(a) \/ RecordParcel(a) PROVE Stays
  <1>1. CASE TrackParcel(a) BY <1>1, UnchangedStays DEF TrackParcel, Exists
  <1>2. CASE RecordParcel(a)
    <2>1. order'.status = order.status BY <1>2 DEF RecordParcel, IInv, TypeOK, Order
    <2> QED BY <1>2, <2>1, UnchangedStays DEF RecordParcel, BookingOnly, Exists
  <1> QED BY <1>1, <1>2

LEMMA VerdictPromise ==
    ASSUME IInv, NEW a \in Actors, CommitClaim(a) \/ FailClaim(a) \/ DoubtClaim(a)
    PROVE  Promise!Book \/ Promise!Refuse \/ Promise!Doubt \/ Stays
  <1>1. order' = order /\ sent' = sent
    BY DEF CommitClaim, FailClaim, DoubtClaim, BookingOnly
  <1>2. At(a) BY DEF IInv, Progress
  <1>3. CASE ~Owns(a)
    BY <1>1, <1>3, UnchangedStays DEF CommitClaim, FailClaim, DoubtClaim, Exists
  <1>4. CASE Owns(a)
    <2>1. Phase = "asked" BY <1>4 DEF Phase, Owns, IInv, Gone
    <2>2. Exists' BY <1>1, <1>4 DEF Owns, IInv, Gone, Exists
    <2>3. CASE CommitClaim(a)
      <3>1. dispatch'.status = "COMMITTED"
        BY <1>4, <2>3 DEF CommitClaim, IInv, TypeOK, Dispatch
      <3>2. sent # {} BY <1>2, <2>3 DEF At, CommitClaim, Handing
      <3> QED BY <1>1, <2>1, <2>2, <3>1, <3>2 DEF Promise!Book, Phase
    <2>4. CASE FailClaim(a)
      <3>1. dispatch'.status = "FAILED"
        BY <1>4, <2>4 DEF FailClaim, IInv, TypeOK, Dispatch
      <3>2. sent = {} BY <1>2, <2>4 DEF At, FailClaim, Asking
      <3> QED BY <1>1, <2>1, <2>2, <3>1, <3>2 DEF Promise!Refuse, Phase
    <2>5. CASE DoubtClaim(a)
      <3>1. dispatch'.status = "INDETERMINATE"
        BY <1>4, <2>5 DEF DoubtClaim, IInv, TypeOK, Dispatch
      <3> QED BY <1>1, <2>1, <2>2, <3>1 DEF Promise!Doubt, Phase
    <2> QED BY <2>3, <2>4, <2>5
  <1> QED BY <1>3, <1>4

LEMMA DeskPromise == ASSUME IInv, Desk PROVE Promise!Withdraw \/ Stays
  <1>1. TypeOK /\ BookedIsShown BY DEF IInv
  <1>2. CASE CancelOrder BY <1>1, <1>2, CancelQuiet, SteadyStays DEF Quiet
  <1>3. CASE DeleteOrder
    BY <1>3 DEF DeleteOrder, NewOrder, Promise!Withdraw, Phase, Exists
  <1>4. ASSUME NEW s \in {"confirmed", "cancelled"}, OwnerAnswers(s) PROVE Stays
    BY <1>1, <1>4, OwnerQuiet, SteadyStays DEF Quiet
  <1>5. ASSUME NEW a \in Actors, NEW job \in Jobs, ReadOrder(a, job) PROVE Stays
    BY <1>1, <1>5, ReadQuiet, SteadyStays DEF Quiet
  <1> QED BY <1>2, <1>3, <1>4, <1>5 DEF Desk

LEMMA CallbackPromise == ASSUME IInv, NEW c \in Callbacks, StatusCallback(c) PROVE Stays
  <1>1. TypeOK /\ BookedIsShown BY DEF IInv
  <1>2. ASSUME NEW p \in Parcels, NEW to \in CourierStatus, ReadTracking(c, p, to) PROVE Stays
    BY <1>1, <1>2, CallbackReadQuiet, SteadyStays DEF Quiet
  <1>3. CASE ApplyStatus(c) BY <1>1, <1>3, ApplyQuiet, SteadyStays DEF Quiet
  <1>4. CASE CallbackLost(c) BY <1>1, <1>4, LostQuiet, SteadyStays DEF Quiet
  <1> QED BY <1>2, <1>3, <1>4 DEF StatusCallback

LEMMA InitPromise == Init => Promise!Init
  BY DEF Init, NewOrder, NoDispatch, Promise!Init, Phase, Exists

LEMMA StepPromise == IInv /\ [Next]_vars => [Promise!Next]_<<Phase, sent>>
  <1> SUFFICES ASSUME IInv, [Next]_vars PROVE Promise!Next \/ Stays BY DEF Stays
  <1>1. CASE Desk BY <1>1, DeskPromise DEF Promise!Next
  <1>2. ASSUME NEW a \in Actors, Booking(a) PROVE Promise!Next \/ Stays
    BY <1>2, QuietSteps, ClaimPromise, PassPromise, VerdictPromise DEF Booking, Promise!Next
  <1>3. ASSUME NEW a \in Actors, Courier(a) PROVE Promise!Next \/ Stays
    <2>1. CASE CourierRejects(a) BY <2>1, QuietSteps
    <2>2. ASSUME NEW p \in Parcels, CourierAccepts(a, p) PROVE Promise!Next
      BY <2>2, SendPromise DEF CourierAccepts, Promise!Next
    <2>3. CASE CourierUnclear(a)
      <3>1. CASE UNCHANGED sent
        BY <2>3, <3>1, UnchangedStays DEF CourierUnclear, CourierOnly, Exists
      <3>2. CASE \E p \in Parcels \ sent : sent' = sent \cup {p}
        BY <2>3, <3>2, SendPromise DEF CourierUnclear, Promise!Next
      <3> QED BY <2>3, <3>1, <3>2 DEF CourierUnclear
    <2> QED BY <1>3, <2>1, <2>2, <2>3 DEF Courier
  <1>4. ASSUME NEW a \in Actors, Fault(a) PROVE Stays BY <1>4, QuietSteps
  <1>5. ASSUME NEW c \in Callbacks, StatusCallback(c) PROVE Stays BY <1>5, CallbackPromise
  <1>6. CASE UNCHANGED vars BY <1>6, UnchangedStays DEF vars, Exists
  <1> QED BY <1>1, <1>2, <1>3, <1>4, <1>5, <1>6 DEF Next

\* However many requests race, crash or are left without an answer, and
\* whatever the desk does meanwhile, the courier is given one parcel at most.
THEOREM Implements == Spec => OneParcelPerOrder
  <1>1. Init => Promise!Init BY InitPromise
  <1>2. IInv /\ [Next]_vars => [Promise!Next]_<<Phase, sent>> BY StepPromise
  <1> QED BY <1>1, <1>2, Invariance, PTL DEF Spec, OneParcelPerOrder, Promise!Spec

\* The courier never has two parcels of one order, whoever asked for them.
THEOREM SentOnce == Spec => [](\A p, q \in sent : p = q)
  <1>1. IInv => One BY DEF IInv
  <1> QED BY <1>1, Invariance, PTL DEF One

----------------------------------------------------------------------------
(* The tracking rows. *)

\* A parcel's row is written by its booking before any callback finds it.
Tracked == \A p \in Parcels : tracking[p] # "none" => p \in sent
RowFirst == \A a \in Actors : act[a].pc = "row" /\ Exists => tracking[act[a].ref] = "none"

\* What a callback is about to write over is a row that is there.
RowThere ==
    \A c \in Callbacks : callback[c].pc = "apply" /\ Exists =>
        /\ callback[c].parcel \in Parcels
        /\ tracking[callback[c].parcel] # "none"

\* What TerminalUnlessDecided says of a parcel in one step.
LastWord(p) ==
    /\ \A c \in Callbacks : Decided(callback'[c], p) => Decided(callback[c], p)
    /\ tracking'[p] # tracking[p] =>
         \E c \in Callbacks : /\ Decided(callback[c], p) /\ ~Decided(callback'[c], p)
                              /\ tracking'[p] = callback[c].to

TInv == IInv /\ Tracked /\ RowFirst /\ RowThere

\* An order that is deleted stays deleted, and the courier forgets no parcel.
LEMMA GoneStays == ASSUME IInv, [Next]_vars PROVE (Exists' => Exists) /\ sent \subseteq sent'
  <1>1. Exists <=> Phase # "gone" BY DEF Phase
  <1>2. Exists' <=> Phase' # "gone" BY DEF Phase
  <1>3. [Promise!Next]_<<Phase, sent>> BY StepPromise
  <1> QED
    BY <1>1, <1>2, <1>3 DEF Promise!Next, Promise!Ask, Promise!Send, Promise!Refuse,
       Promise!Doubt, Promise!Book, Promise!Withdraw

\* The three steps that write tracking rows.
LEMMA TrackingKept ==
    ASSUME [Next]_vars, ~DeleteOrder, \A a \in Actors : ~TrackParcel(a),
           \A c \in Callbacks : ~ApplyStatus(c)
    PROVE  tracking' = tracking
  BY DEF Next, Desk, Booking, Courier, Fault, StatusCallback, vars, CancelOrder,
         OwnerAnswers, ReadOrder, WriteStatus, AnswerBooked, SetupRequired, GateHolds,
         GatePasses, MarkHold, Claim, RecordParcel, CommitClaim, FailClaim,
         DoubtClaim, MarkDoubt, CourierAccepts, CourierRejects, CourierUnclear, WriteFails,
         Crash, ReadTracking, CallbackLost, BookingOnly, CourierOnly, CallbackOnly

\* Only callbacks move callbacks.
LEMMA CallbacksKept ==
    ASSUME [Next]_vars, \A c \in Callbacks : ~StatusCallback(c)
    PROVE  callback' = callback
  BY DEF Next, Desk, Booking, Courier, Fault, vars, CancelOrder, DeleteOrder,
         OwnerAnswers, ReadOrder, WriteStatus, AnswerBooked, SetupRequired, GateHolds,
         GatePasses, MarkHold, Claim, TrackParcel, RecordParcel, CommitClaim, FailClaim,
         DoubtClaim, MarkDoubt, CourierAccepts, CourierRejects, CourierUnclear, WriteFails,
         Crash, BookingOnly, CourierOnly

LEMMA MovedElsewhere ==
    ASSUME NEW a \in Actors, NEW pc, pc # "row", MovedTo(a, pc), NEW b \in Actors,
           act'[b].pc = "row"
    PROVE  act[b].pc = "row" /\ act'[b].ref = act[b].ref
  BY DEF MovedTo

LEMMA CalmRows ==
    ASSUME Calm, NEW b \in Actors, act'[b].pc = "row"
    PROVE  act[b].pc = "row" /\ act'[b].ref = act[b].ref
  BY DEF Calm, InFlight, Asking, Handing

\* A request that is about to write a tracking row was about to before, or
\* holds a parcel the courier had not accepted.
RowMoves(b) == act'[b].pc = "row" => \/ act[b].pc = "row" /\ act'[b].ref = act[b].ref
                                     \/ act'[b].ref \in Parcels \ sent

LEMMA BookingRows ==
    ASSUME IInv, NEW a \in Actors, Booking(a), NEW b \in Actors PROVE RowMoves(b)
  <1>0. TypeOK /\ BookedIsShown BY DEF IInv
  <1>1. CASE WriteStatus(a) BY <1>0, <1>1, WriteQuiet, CalmRows DEF Quiet, RowMoves
  <1>2. CASE AnswerBooked(a) \/ GateHolds(a) \/ GatePasses(a)
    BY <1>0, <1>2, LookQuiet, CalmRows DEF Quiet, RowMoves
  <1>3. CASE SetupRequired(a) BY <1>0, <1>3, SetupQuiet, CalmRows DEF Quiet, RowMoves
  <1>4. CASE MarkHold(a) \/ MarkDoubt(a) BY <1>0, <1>4, MarkQuiet, CalmRows DEF Quiet, RowMoves
  <1>5. CASE Claim(a)
    <2>1. act'[b].pc = "row" => act'[b] = act[b]
      BY <1>0, <1>5 DEF Claim, Ends, AtRest, TypeOK
    <2> QED BY <2>1 DEF RowMoves
  <1>6. CASE TrackParcel(a) \/ RecordParcel(a) \/ CommitClaim(a) \/ FailClaim(a) \/ DoubtClaim(a)
    <2>1. \/ \E pc \in {"doubt", "record", "commit", "marker"} : Goes(a, pc)
          \/ Ends(a)
      BY <1>6 DEF TrackParcel, RecordParcel, CommitClaim, FailClaim, DoubtClaim
    <2>2. \E pc \in PC \ {"row"} : MovedTo(a, pc)
      BY <1>0, <2>1, GoesMoves, EndsMoves DEF PC
    <2> QED BY <2>2, MovedElsewhere DEF RowMoves
  <1> QED BY <1>1, <1>2, <1>3, <1>4, <1>5, <1>6 DEF Booking

LEMMA StepRows ==
    ASSUME IInv, [Next]_vars, NEW b \in Actors PROVE RowMoves(b)
  <1>0. TypeOK /\ BookedIsShown BY DEF IInv
  <1>1. ASSUME NEW a \in Actors, Courier(a) PROVE RowMoves(b)
    <2>1. CASE CourierRejects(a) BY <1>0, <2>1, RejectQuiet, CalmRows DEF Quiet, RowMoves
    <2>2. CASE CourierUnclear(a)
      <3>1. MovedTo(a, "doubt") BY <1>0, <2>2, GoesMoves DEF CourierUnclear, PC
      <3> QED BY <3>1, MovedElsewhere DEF RowMoves
    <2>3. ASSUME NEW p \in Parcels, CourierAccepts(a, p) PROVE RowMoves(b)
      <3>1. act' = [act EXCEPT ![a] = [act[a] EXCEPT !.pc = "row", !.ref = p]] /\ p \notin sent
        BY <2>3 DEF CourierAccepts
      <3>2. act[a] \in Act BY <1>0 DEF TypeOK
      <3>3. [act[a] EXCEPT !.pc = "row", !.ref = p].ref = p BY <3>2 DEF Act
      <3>4. act'[a].ref = p /\ (b # a => act'[b] = act[b]) BY <1>0, <3>1, <3>3 DEF TypeOK
      <3> QED BY <3>1, <3>4 DEF RowMoves
    <2> QED BY <1>1, <2>1, <2>2, <2>3 DEF Courier
  <1>2. ASSUME NEW a \in Actors, Fault(a) PROVE RowMoves(b)
    BY <1>0, <1>2, LookQuiet, FailQuiet, CalmRows DEF Quiet, Fault, RowMoves
  <1>3. ASSUME NEW a \in Actors, NEW job \in Jobs, ReadOrder(a, job) PROVE RowMoves(b)
    BY <1>0, <1>3, ReadQuiet, CalmRows DEF Quiet, RowMoves
  <1>4. CASE act' = act BY <1>4 DEF RowMoves
  <1>5. CancelOrder \/ DeleteOrder \/ (\E s \in {"confirmed", "cancelled"} : OwnerAnswers(s))
        \/ (\E c \in Callbacks : StatusCallback(c)) \/ UNCHANGED vars => act' = act
    BY DEF CancelOrder, DeleteOrder, OwnerAnswers, StatusCallback, ReadTracking, ApplyStatus,
           CallbackLost, CallbackOnly, vars
  <1> QED BY <1>1, <1>2, <1>3, <1>4, <1>5, BookingRows DEF Next, Desk

\* A step that writes no tracking row.
LEMMA TrackingQuiet ==
    ASSUME TInv, [Next]_vars, tracking' = tracking PROVE Tracked' /\ RowFirst'
  <1>1. Exists' => Exists BY GoneStays DEF TInv
  <1>2. sent \subseteq sent' BY GoneStays DEF TInv
  <1>3. \A b \in Actors : RowMoves(b) BY StepRows DEF TInv
  <1>4. Tracked' BY <1>2 DEF TInv, Tracked
  <1>5. RowFirst' BY <1>1, <1>3 DEF TInv, Tracked, RowFirst, RowMoves
  <1> QED BY <1>4, <1>5

LEMMA ReadStep ==
    ASSUME TInv, NEW c \in Callbacks, NEW q \in Parcels, NEW to \in CourierStatus,
           ReadTracking(c, q, to)
    PROVE  /\ RowThere'
           /\ \A p \in Parcels : tracking[p] \in Terminal => LastWord(p)
  <1>1. callback' = [callback EXCEPT ![c] =
                      [pc |-> "apply", to |-> to, seen |-> order.status, parcel |-> q]]
        /\ tracking' = tracking /\ order' = order
    BY DEF ReadTracking, CallbackOnly
  <1>2. tracking[q] \notin Terminal \cup {"none"} BY DEF ReadTracking
  <1>3. callback'[c].parcel = q /\ \A d \in Callbacks : d # c => callback'[d] = callback[d]
    BY <1>1 DEF TInv, IInv, TypeOK
  <1>4. RowThere' BY <1>1, <1>2, <1>3 DEF TInv, RowThere, Exists
  <1>5. ASSUME NEW p \in Parcels, tracking[p] \in Terminal PROVE LastWord(p)
    BY <1>1, <1>2, <1>3, <1>5 DEF LastWord, Decided
  <1> QED BY <1>4, <1>5

\* The booking writes the row of a parcel no callback can know of.
LEMMA TrackKeeps ==
    ASSUME TInv, NEW a \in Actors, TrackParcel(a), Exists
    PROVE  /\ Tracked' /\ RowFirst' /\ RowThere'
           /\ \A p \in Parcels : tracking[p] \in Terminal => LastWord(p)
  <1> DEFINE q == act[a].ref
  <1>1. q \in Parcels /\ sent = {q} /\ tracking[q] = "none"
    BY DEF TrackParcel, TInv, IInv, Progress, At, Handing, RowFirst
  <1>2. tracking' = [tracking EXCEPT ![q] = "booked"] /\ order' = order /\ sent' = sent
        /\ callback' = callback
    BY DEF TrackParcel
  <1>3. tracking'[q] = "booked" /\ \A p \in Parcels : p # q => tracking'[p] = tracking[p]
    BY <1>1, <1>2 DEF TInv, IInv, TypeOK
  <1>4. MovedTo(a, "record") BY GoesMoves DEF TrackParcel, TInv, IInv, PC
  <1>5. \A b \in Actors : act'[b].pc # "row"
    BY <1>4 DEF MovedTo, TrackParcel, TInv, IInv, Alone, InFlight, Handing
  <1>6. Tracked' BY <1>1, <1>2, <1>3 DEF TInv, Tracked
  <1>7. RowFirst' BY <1>5 DEF RowFirst
  <1>8. RowThere' BY <1>1, <1>2, <1>3 DEF TInv, RowThere, Exists
  <1>9. ASSUME NEW p \in Parcels, tracking[p] \in Terminal PROVE LastWord(p)
    <2>1. tracking'[p] = tracking[p] BY <1>1, <1>3, <1>9 DEF Terminal
    <2> QED BY <1>2, <2>1 DEF LastWord, Decided
  <1> QED BY <1>6, <1>7, <1>8, <1>9

\* A callback writes what it has decided, and is through.
LEMMA ApplyKeeps ==
    ASSUME TInv, [Next]_vars, NEW c \in Callbacks, ApplyStatus(c), Exists
    PROVE  /\ Tracked' /\ RowFirst' /\ RowThere'
           /\ \A p \in Parcels : tracking[p] \in Terminal => LastWord(p)
  <1> DEFINE q == callback[c].parcel
             to == callback[c].to
  <1>0. to \in CourierStatus BY DEF TInv, IInv, TypeOK, Callback
  <1>1. q \in Parcels /\ tracking[q] # "none" /\ callback[c].pc = "apply"
    BY DEF ApplyStatus, TInv, RowThere
  <1>2. tracking' = [tracking EXCEPT ![q] = to] /\ sent' = sent /\ act' = act
    BY DEF ApplyStatus, CallbackOnly
  <1>3. tracking'[q] = to /\ \A p \in Parcels : p # q => tracking'[p] = tracking[p]
    BY <1>1, <1>2 DEF TInv, IInv, TypeOK
  <1>4. callback'[c].pc = "idle" /\ \A d \in Callbacks : d # c => callback'[d] = callback[d]
    BY DEF ApplyStatus, Waiting, TInv, IInv, TypeOK
  <1>5. to # "none" BY <1>0 DEF CourierStatus, Terminal
  <1>6. Tracked' BY <1>1, <1>2, <1>3 DEF TInv, Tracked
  <1>7. RowFirst'
    <2> SUFFICES ASSUME NEW a \in Actors, act[a].pc = "row"
                 PROVE  tracking'[act[a].ref] = "none"
      BY <1>2 DEF RowFirst
    <2>1. act[a].ref \in Parcels /\ tracking[act[a].ref] = "none"
      BY DEF TInv, IInv, Progress, At, Handing, RowFirst
    <2> QED BY <1>1, <1>3, <2>1
  <1>8. \A p \in Parcels : tracking[p] # "none" => tracking'[p] # "none"
    BY <1>3, <1>5
  <1>9. RowThere' BY <1>4, <1>8 DEF TInv, RowThere
  <1>10. ASSUME NEW p \in Parcels, tracking[p] \in Terminal PROVE LastWord(p)
    <2>1. \A d \in Callbacks : Decided(callback'[d], p) => Decided(callback[d], p)
      BY <1>4 DEF Decided
    <2>2. CASE p = q
      <3>1. Decided(callback[c], p) /\ ~Decided(callback'[c], p)
        BY <1>1, <1>4, <2>2 DEF Decided
      <3> QED BY <1>3, <2>1, <2>2, <3>1 DEF LastWord
    <2>3. CASE p # q BY <1>3, <2>1, <2>3 DEF LastWord
    <2> QED BY <2>2, <2>3
  <1> QED BY <1>6, <1>7, <1>9, <1>10

\* The callbacks in the other steps.
LEMMA CallbacksQuiet ==
    ASSUME TInv, [Next]_vars, tracking' = tracking, \A c \in Callbacks : ~ApplyStatus(c)
    PROVE  /\ RowThere'
           /\ \A p \in Parcels : tracking[p] \in Terminal => LastWord(p)
  <1>1. Exists' => Exists BY GoneStays DEF TInv
  <1>2. CASE callback' = callback BY <1>1, <1>2 DEF TInv, RowThere, LastWord, Decided
  <1>3. ASSUME NEW c \in Callbacks, NEW p \in Parcels, NEW to \in CourierStatus,
               ReadTracking(c, p, to)
        PROVE  RowThere' /\ \A q \in Parcels : tracking[q] \in Terminal => LastWord(q)
    BY <1>3, ReadStep
  <1>4. ASSUME NEW c \in Callbacks, CallbackLost(c)
        PROVE  RowThere' /\ \A q \in Parcels : tracking[q] \in Terminal => LastWord(q)
    <2>1. callback'[c].pc = "idle" /\ \A d \in Callbacks : d # c => callback'[d] = callback[d]
      BY <1>4 DEF CallbackLost, Waiting, TInv, IInv, TypeOK
    <2>2. RowThere' BY <1>1, <2>1 DEF TInv, RowThere
    <2> QED BY <2>1, <2>2 DEF LastWord, Decided
  <1> QED BY <1>2, <1>3, <1>4, CallbacksKept DEF StatusCallback

\* What the deletion of the order leaves.
LEMMA DeleteKeeps ==
    ASSUME TInv, DeleteOrder PROVE Tracked' /\ RowFirst' /\ RowThere' /\ ~Exists'
  BY DEF DeleteOrder, NewOrder, Tracked, RowFirst, RowThere, Exists

TrackingStep ==
    /\ Tracked' /\ RowFirst' /\ RowThere'
    /\ \A p \in Parcels : tracking[p] \in Terminal /\ Exists' => LastWord(p)

LEMMA TerminalStep == ASSUME TInv, [Next]_vars PROVE TrackingStep
  <1>1. CASE tracking' = tracking /\ \A c \in Callbacks : ~ApplyStatus(c)
    BY <1>1, TrackingQuiet, CallbacksQuiet DEF TrackingStep
  <1>2. CASE DeleteOrder BY <1>2, DeleteKeeps DEF TrackingStep
  <1>3. ASSUME NEW a \in Actors, TrackParcel(a) PROVE TrackingStep
    <2>1. CASE Exists BY <1>3, <2>1, TrackKeeps DEF TrackingStep
    <2>2. CASE ~Exists
      <3>1. tracking' = tracking BY <1>3, <2>2 DEF TrackParcel
      <3>2. ~Exists' BY <2>2, GoneStays DEF TInv
      <3> QED BY <3>1, <3>2, TrackingQuiet DEF TrackingStep, RowThere
    <2> QED BY <2>1, <2>2
  <1>4. ASSUME NEW c \in Callbacks, ApplyStatus(c) PROVE TrackingStep
    <2>1. CASE Exists BY <1>4, <2>1, ApplyKeeps DEF TrackingStep
    <2>2. CASE ~Exists
      <3>1. tracking' = tracking BY <1>4, <2>2 DEF ApplyStatus
      <3>2. ~Exists' BY <2>2, GoneStays DEF TInv
      <3> QED BY <3>1, <3>2, TrackingQuiet DEF TrackingStep, RowThere
    <2> QED BY <2>1, <2>2
  <1> QED BY <1>1, <1>2, <1>3, <1>4, TrackingKept

\* However many callbacks and polls are handled at once, no status that
\* handleDeliveryWebhook looks at after a parcel was delivered or returned is
\* written over that: only one it had looked at before is, once, and the
\* booking never resets the row.
THEOREM TerminalKept == Spec => TerminalUnlessDecided
  <1>1. Init => TInv
    <2> SUFFICES ASSUME Init PROVE TInv OBVIOUS
    <2>1. IInv BY InitInv
    <2>2. Tracked /\ RowFirst /\ RowThere
      BY DEF Init, AtRest, Waiting, Tracked, RowFirst, RowThere
    <2> QED BY <2>1, <2>2 DEF TInv
  <1>2. TInv /\ [Next]_vars => TInv'
    BY TerminalStep, Step DEF TInv, TrackingStep
  <1>3. TInv /\ [Next]_vars =>
          [\A p \in Parcels : tracking[p] \in Terminal /\ Exists' =>
             /\ \A c \in Callbacks : Decided(callback'[c], p) => Decided(callback[c], p)
             /\ tracking'[p] # tracking[p] =>
                  \E c \in Callbacks : /\ Decided(callback[c], p) /\ ~Decided(callback'[c], p)
                                       /\ tracking'[p] = callback[c].to]_vars
    BY TerminalStep DEF TrackingStep, LastWord
  <1> QED BY <1>1, <1>2, <1>3, PTL DEF Spec, TerminalUnlessDecided
====
