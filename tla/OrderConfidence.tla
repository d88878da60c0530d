---- MODULE OrderConfidence ----
(***************************************************************************)
(* The Order Confidence gate (modules/order-confidence): the decision row  *)
(* of one order, evaluated again by every panel read, every merchant       *)
(* resolution and every booking attempt, and written by compare-and-set on *)
(* its version, while the order is edited underneath.                      *)
(*                                                                         *)
(* One order.  Other orders reach this one only as history, so they are    *)
(* the choice among the Findings its facts may have at a given moment.     *)
(* The mode is 'enforce': 'off' and 'shadow' let every order through.      *)
(***************************************************************************)
EXTENDS Naturals

CONSTANTS
    Facts,          \* what a fingerprint tells apart: phone, address, items...
    Reason,         \* reasons an evaluation may give: [code, severity]
    Findings,       \* Findings[f]: the reason sets facts f may be given
    Bookers,        \* booking attempts, each with its in-memory order
    Merchants,      \* people with the decision panel open
    Owners,         \* those of them who may approve
    MaxVersion,     \* bound: versions of the row
    MaxChanges      \* bound: changes to the order while decisions are made

Severity == {"BLOCK", "REVIEW", "VERIFY", "INFO"}
NotBookable == [code |-> "ORDER_CANCELLED", severity |-> "BLOCK"]
NotConfirmed == [code |-> "ORDER_NOT_CONFIRMED", severity |-> "VERIFY"]

ASSUME ReasonsAreRated ==
    /\ \A r \in Reason : r.severity \in Severity
    /\ {NotBookable, NotConfirmed} \subseteq Reason
    /\ Findings \in [Facts -> SUBSET SUBSET Reason]

ASSUME PeopleAreNotBookers == Bookers \cap Merchants = {} /\ Owners \subseteq Merchants
ASSUME BoundsAreNumbers == {MaxVersion, MaxChanges} \subseteq Nat

VARIABLES
    order,      \* the order row: its facts and its status
    changes,    \* changes made to it so far
    conf,       \* the order_confidence row, NoRow until the first evaluation
    work,       \* the request each booker or merchant is in
    payload,    \* facts of the order each booker holds in memory
    seen        \* the decision each merchant has on screen

vars == <<order, changes, conf, work, payload, seen>>

----------------------------------------------------------------------------
NoRow == [version |-> 0]
NoFacts == "nothing"
Unresolved == "none"
NoReview == [level |-> 0, fingerprint |-> NoFacts]

Order == [facts : Facts, status : {"draft", "confirmed", "cancelled"}]

\* The decision column is a function of the reasons.  reviewed is history:
\* the facts and the level of the decision the resolving merchant had on screen.
Review == [level : 0 .. 2, fingerprint : Facts \cup {NoFacts}]

Row == [version : Nat \ {0}, reasons : SUBSET Reason, fingerprint : Facts,
        resolution : {Unresolved, "VERIFIED", "APPROVED"},
        resolutionFingerprint : Facts \cup {NoFacts},
        outcome : {"none", "recorded"},
        reviewed : Review]

Resolutions == {"VERIFIED", "APPROVED"}

Request == [pc : {"idle", "load", "facts", "row", "reread", "judge", "resolve",
                  "released"},
            kind : {"gate", "panel"} \cup Resolutions,
            ord : Order,
            reasons : SUBSET Reason,
            row : {NoRow} \cup Row]

\* rules.evaluate: the worst severity decides.
Has(reasons, severity) == \E r \in reasons : r.severity = severity

Level(reasons) ==
    IF Has(reasons, "BLOCK") \/ Has(reasons, "REVIEW") THEN 2
    ELSE IF Has(reasons, "VERIFY") THEN 1 ELSE 0

Ready(reasons) == Level(reasons) = 0

ResolutionLevel(resolution) == IF resolution = "APPROVED" THEN 2 ELSE 1

StatusReasons(status) ==
    CASE status = "cancelled" -> {NotBookable}
      [] status = "draft"     -> {NotConfirmed}
      [] OTHER                -> {}

Evaluations(o) == {StatusReasons(o.status) \cup found : found \in Findings[o.facts]}

\* Mutant: the resolution is not bound to the facts it was made for.
ClearedWhateverFacts(row, fp) ==
    \/ Ready(row.reasons)
    \/ row.resolution # Unresolved /\ ResolutionLevel(row.resolution) >= Level(row.reasons)

\* rules.effectiveState: a resolution counts for the same facts only, and only
\* when it covers the decision.
Cleared(row, fp) ==
    \/ Ready(row.reasons)
    \/ /\ row.resolution # Unresolved
       /\ row.resolutionFingerprint = fp
       /\ ResolutionLevel(row.resolution) >= Level(row.reasons)

Material(row, reasons, fp) == row.reasons # reasons \/ row.fingerprint # fp

ReviewOf(row) == [level |-> Level(row.reasons), fingerprint |-> row.fingerprint]

----------------------------------------------------------------------------
Actors == Bookers \cup Merchants

Idle == [pc |-> "idle", kind |-> "panel",
         ord |-> CHOOSE o \in Order : TRUE, reasons |-> {}, row |-> NoRow]

TypeOK ==
    /\ order \in Order
    /\ changes \in Nat
    /\ conf \in {NoRow} \cup Row
    /\ work \in [Actors -> Request]
    /\ payload \in [Bookers -> Facts]
    /\ seen \in [Merchants -> {NoRow} \cup Row]

Init ==
    /\ order \in [facts : Facts, status : {"draft", "confirmed"}]
    /\ changes = 0
    /\ conf = NoRow
    /\ work = [a \in Actors |-> Idle]
    /\ payload = [b \in Bookers |-> order.facts]
    /\ seen = [m \in Merchants |-> NoRow]

----------------------------------------------------------------------------
(* The order changes underneath. *)

Change(o) ==
    /\ changes < MaxChanges
    /\ changes' = changes + 1
    /\ order' = o
    /\ UNCHANGED <<conf, work, payload, seen>>

\* updateOrder: address, phone, items; not once the order is cancelled.
EditOrder ==
    /\ order.status # "cancelled"
    /\ \E f \in Facts \ {order.facts} : Change([order EXCEPT !.facts = f])

\* confirmOrder on a draft; a payment confirms whatever the status was.
ConfirmOrder ==
    /\ order.status # "confirmed"
    /\ Change([order EXCEPT !.status = "confirmed"])

CancelOrder ==
    /\ order.status # "cancelled"
    /\ Change([order EXCEPT !.status = "cancelled"])

\* The courier's verdict on the parcel is recorded once, whatever decision stands.
RecordOutcome ==
    /\ \E b \in Bookers : work[b].pc = "released"
    /\ conf # NoRow /\ conf.outcome = "none" /\ conf.version < MaxVersion
    /\ conf' = [conf EXCEPT !.outcome = "recorded", !.version = @ + 1]
    /\ UNCHANGED <<order, changes, work, payload, seen>>

----------------------------------------------------------------------------
(* Evaluation, shared by the gate, the panel and the resolutions. *)

\* The caller of bookForOrder loads the order it will ship.
LoadOrder(b) ==
    /\ work[b].pc = "idle"
    /\ work' = [work EXCEPT ![b].pc = "load", ![b].kind = "gate"]
    /\ payload' = [payload EXCEPT ![b] = order.facts]
    /\ UNCHANGED <<order, changes, conf, seen>>

\* The order is read again for the evaluation.
StartGate(b) ==
    /\ work[b].pc = "load"
    /\ work' = [work EXCEPT ![b].pc = "facts", ![b].ord = order]
    /\ UNCHANGED <<order, changes, conf, payload, seen>>

StartPanel(m) ==
    /\ work[m].pc = "idle"
    /\ work' = [work EXCEPT ![m].pc = "facts", ![m].kind = "panel", ![m].ord = order]
    /\ UNCHANGED <<order, changes, conf, payload, seen>>

\* The request names the version on the merchant's screen.
StartResolution(m, kind) ==
    /\ work[m].pc = "idle"
    /\ seen[m] # NoRow
    /\ work' = [work EXCEPT ![m].pc = "facts", ![m].kind = kind, ![m].ord = order]
    /\ UNCHANGED <<order, changes, conf, payload, seen>>

FindRow(a) ==
    /\ work[a].pc = "facts"
    /\ \E reasons \in Evaluations(work[a].ord) :
         work' = [work EXCEPT ![a].pc = "row", ![a].reasons = reasons, ![a].row = conf]
    /\ UNCHANGED <<order, changes, conf, payload, seen>>

\* Mutant: the version column has no default.
NewRowUnversioned(reasons, fp) ==
    [version |-> 0, reasons |-> reasons, fingerprint |-> fp,
     resolution |-> Unresolved, resolutionFingerprint |-> NoFacts,
     outcome |-> "none", reviewed |-> NoReview]

NewRow(reasons, fp) ==
    [version |-> 1, reasons |-> reasons, fingerprint |-> fp,
     resolution |-> Unresolved, resolutionFingerprint |-> NoFacts,
     outcome |-> "none", reviewed |-> NoReview]

ReadAgain(a) ==
    [work EXCEPT ![a].pc = "reread", ![a].row = NoRow, ![a].reasons = {}]

\* The unique order_id lets one insert through; the others read the winner.
CreateRow(a) ==
    /\ work[a].pc = "row" /\ work[a].row = NoRow
    /\ \/ /\ conf = NoRow
          /\ conf' = NewRow(work[a].reasons, work[a].ord.facts)
          /\ work' = [work EXCEPT ![a].pc = "judge", ![a].row = conf',
                                  ![a].reasons = {}]
       \/ /\ conf # NoRow
          /\ work' = ReadAgain(a)
          /\ UNCHANGED conf
    /\ UNCHANGED <<order, changes, payload, seen>>

\* Mutant: a changed decision keeps its version.
Unbumped(row, values) == values

\* casUpdate with bump.
Bumped(row, values) == [values EXCEPT !.version = row.version + 1]

\* Mutant: the update names the order only, not the version.
CasAlwaysWins(row) == row # NoRow

CasWins(row) == conf.version = row.version

RowChanges(a) ==
    LET row == work[a].row
        next == [row EXCEPT !.reasons = work[a].reasons,
                            !.fingerprint = work[a].ord.facts]
    IN
    /\ work[a].pc = "row" /\ row # NoRow
    /\ Material(row, work[a].reasons, work[a].ord.facts)
    /\ \/ /\ CasWins(row) /\ conf.version < MaxVersion
          /\ conf' = Bumped(row, next)
       \/ /\ ~CasWins(row)
          /\ UNCHANGED conf
    /\ work' = ReadAgain(a)
    /\ UNCHANGED <<order, changes, payload, seen>>

\* Newer evidence for the same reasons does not bump the version, and the row
\* is read again; with nothing new the row read first is used.
RowStands(a) ==
    LET row == work[a].row IN
    /\ work[a].pc = "row" /\ row # NoRow
    /\ ~Material(row, work[a].reasons, work[a].ord.facts)
    /\ \/ work' = [work EXCEPT ![a].pc = "judge", ![a].reasons = {}]
       \/ work' = ReadAgain(a)
    /\ UNCHANGED <<order, changes, conf, payload, seen>>

RereadRow(a) ==
    /\ work[a].pc = "reread"
    /\ work' = [work EXCEPT ![a].pc = "judge", ![a].row = conf]
    /\ UNCHANGED <<order, changes, conf, payload, seen>>

----------------------------------------------------------------------------
(* The booking gate. *)

WouldHold(b) ==
    LET fp == work[b].ord.facts
        row == work[b].row
    IN
    \/ Has(row.reasons, "BLOCK")
    \/ ~Cleared(row, fp)
    \/ payload[b] # fp

Judging(a, kinds) == work[a].pc = "judge" /\ work[a].kind \in kinds

\* The booking goes on to the courier with the payload.
Release(b) ==
    /\ Judging(b, {"gate"})
    /\ ~WouldHold(b)
    /\ work' = [work EXCEPT ![b].pc = "released"]
    /\ UNCHANGED <<order, changes, conf, payload, seen>>

Hold(b) ==
    /\ Judging(b, {"gate"})
    /\ WouldHold(b)
    /\ work' = [work EXCEPT ![b] = Idle]
    /\ UNCHANGED <<order, changes, conf, payload, seen>>

\* Any error inside the gate holds the order.
EngineFails(b) ==
    /\ work[b].pc \in {"facts", "row", "reread"}
    /\ work' = [work EXCEPT ![b] = Idle]
    /\ UNCHANGED <<order, changes, conf, payload, seen>>

----------------------------------------------------------------------------
(* The panel and the merchant's resolution. *)

Show(m, row) ==
    /\ seen' = [seen EXCEPT ![m] = row]
    /\ work' = [work EXCEPT ![m] = Idle]

ShowDecision(m) ==
    /\ Judging(m, {"panel"})
    /\ Show(m, work[m].row)
    /\ UNCHANGED <<order, changes, conf, payload>>

Changed(m) == work[m].row.version # seen[m].version

\* DECISION_CHANGED, ORDER_NOT_BOOKABLE, NO_RESOLUTION_REQUIRED and
\* APPROVAL_REQUIRED carry the fresh decision; FORBIDDEN does not.
Objection(m) ==
    LET reasons == work[m].row.reasons IN
    \/ Changed(m)
    \/ Has(reasons, "BLOCK")
    \/ Ready(reasons)
    \/ work[m].kind = "VERIFIED" /\ Level(reasons) = 2

Forbidden(m) == work[m].kind = "APPROVED" /\ m \notin Owners

Refuse(m) ==
    /\ Judging(m, Resolutions)
    /\ \/ Objection(m) /\ Show(m, work[m].row)
       \/ ~Objection(m) /\ Forbidden(m) /\ Show(m, seen[m])
    /\ UNCHANGED <<order, changes, conf, payload>>

Accept(m) ==
    /\ Judging(m, Resolutions)
    /\ ~Objection(m) /\ ~Forbidden(m)
    /\ work' = [work EXCEPT ![m].pc = "resolve"]
    /\ UNCHANGED <<order, changes, conf, payload, seen>>

\* The write and its audit row are one transaction; the answer is read back.
Resolve(m) ==
    LET row == work[m].row
        next == [row EXCEPT !.resolution = work[m].kind,
                            !.resolutionFingerprint = work[m].ord.facts,
                            !.reviewed = ReviewOf(seen[m])]
    IN
    /\ work[m].pc = "resolve"
    /\ \/ /\ CasWins(row) /\ conf.version < MaxVersion
          /\ conf' = Bumped(row, next)
          /\ work' = [work EXCEPT ![m].pc = "reread", ![m].kind = "panel",
                                  ![m].row = NoRow]
          /\ UNCHANGED seen
       \/ /\ ~CasWins(row)
          /\ Show(m, row)
          /\ UNCHANGED conf
    /\ UNCHANGED <<order, changes, payload>>

----------------------------------------------------------------------------
OrderMoves == EditOrder \/ ConfirmOrder \/ CancelOrder \/ RecordOutcome

Evaluate(a) ==
    FindRow(a) \/ CreateRow(a) \/ RowChanges(a) \/ RowStands(a) \/ RereadRow(a)

Gate(b) == LoadOrder(b) \/ StartGate(b) \/ Release(b) \/ Hold(b) \/ EngineFails(b)

Panel(m) ==
    \/ StartPanel(m) \/ ShowDecision(m) \/ Refuse(m) \/ Accept(m) \/ Resolve(m)
    \/ \E kind \in Resolutions : StartResolution(m, kind)

Next ==
    \/ OrderMoves
    \/ \E a \in Actors : Evaluate(a)
    \/ \E b \in Bookers : Gate(b)
    \/ \E m \in Merchants : Panel(m)

Spec == Init /\ [][Next]_vars

----------------------------------------------------------------------------
\* The row as its version promises it (AgreedDecision).
Copies == [a \in Actors |-> work[a].row]

Agreed == INSTANCE AgreedDecision WITH decision <- conf, copies <- Copies, screens <- seen

\* Compare-and-set on the version is compare-and-set on the decision: whoever
\* writes the row, after however many reads of row, order and history, has
\* read all of what he writes over (casUpdate).
DecisionImplemented == Agreed!Spec

\* A resolution is written over exactly the decision its merchant had on
\* screen, and is bound to the facts that decision was about: the version a
\* request names, the row the server re-evaluated and the fingerprint it took
\* from the order it read are three different reads (resolve).
ResolvesWhatWasSeen ==
    [][conf # NoRow /\ conf'.resolutionFingerprint # conf.resolutionFingerprint =>
         \E m \in Merchants :
            /\ work[m].pc = "resolve"
            /\ seen[m] = conf
            /\ conf'.resolutionFingerprint = conf.fingerprint]_vars

\* What a booking ships on a merchant's word is what a merchant reviewed: the
\* facts of the in-memory order, under a resolution that covers the decision
\* the gate saw and the one that was on screen (checkBookingGate).
ReleasedOnReview ==
    \A b \in Bookers :
        LET row == work[b].row IN
        work[b].pc = "released" /\ ~Ready(row.reasons) =>
            /\ row.reviewed.fingerprint = payload[b]
            /\ ResolutionLevel(row.resolution) >= row.reviewed.level
            /\ ResolutionLevel(row.resolution) >= Level(row.reasons)
====
