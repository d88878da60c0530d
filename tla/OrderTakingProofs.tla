---- MODULE OrderTakingProofs ----
(***************************************************************************)
(* Theorems of OrderTaking.  The inductive invariant says what a turn that *)
(* is past the summary knows: its session, its line, and, once it says     *)
(* "created", an order of that session.                                    *)
(***************************************************************************)
EXTENDS OrderTaking, TLAPS

Knows(a) ==
    /\ a.pc \notin {"idle", "start"} => a.ses \in Sessions
    /\ a.pc \in {"gate", "create", "created"} => a.line \in Line
    /\ a.pc = "created" => /\ a.order \in Orders /\ orders[a.order] # NoOrder
                           /\ orders[a.order].key.session = a.ses

KeysUnique ==
    \A o, p \in Orders : orders[o] # NoOrder /\ orders[p] # NoOrder /\ orders[o].key = orders[p].key => o = p

CompletedRow(s, row) ==
    row.status = "COMPLETED" =>
        /\ row.order \in Orders /\ orders[row.order] # NoOrder
        /\ orders[row.order].key.session = s

IInv ==
    /\ TypeOK /\ KeysUnique /\ OrderedAsConfirmed
    /\ \A s \in Sessions : CompletedRow(s, sessions[s])
    /\ \A t \in Turns : Knows(act[t])

----------------------------------------------------------------------------
(* Facts about the records. *)

LEMMA AtRestFacts == AtRest \in Act /\ AtRest.pc = "idle"
  BY NothingIsThere DEF AtRest, Act, Cart

LEMMA NoRowFacts == NoRow \in Row /\ NoRow.status = "none"
  BY DEF NoRow, Row, Cart, Statuses, Steps

\* A step of a turn that leaves the orders alone.
LEMMA QuietStep == ASSUME IInv, NEW t \in Turns, NEW a \in Act, Knows(a),
                          act' = [act EXCEPT ![t] = a], orders' = orders,
                          sessions' \in [Sessions -> Row], product' = product, edits' = edits,
                          messages' \in Nat, \A s \in Sessions : CompletedRow(s, sessions'[s])
                   PROVE  IInv'
  <1>1. TypeOK' BY DEF IInv, TypeOK
  <1>2. KeysUnique' /\ OrderedAsConfirmed' BY DEF IInv, KeysUnique, OrderedAsConfirmed
  <1>3. \A s \in Sessions : CompletedRow(s, sessions[s])' BY DEF CompletedRow
  <1>4. ASSUME NEW u \in Turns PROVE Knows(act[u])'
    <2>1. act'[u] = a \/ act'[u] = act[u] BY DEF IInv, TypeOK
    <2>2. Knows(act'[u]) BY <2>1 DEF IInv
    <2> QED BY <2>2 DEF Knows
  <1> QED BY <1>1, <1>2, <1>3, <1>4 DEF IInv

\* A row is written that is not newly completed.
LEMMA RowWritten == ASSUME IInv, NEW s \in Sessions, NEW row \in Row,
                           sessions' = [sessions EXCEPT ![s] = row], CompletedRow(s, row)
                    PROVE  /\ sessions' \in [Sessions -> Row]
                           /\ \A r \in Sessions : CompletedRow(r, sessions'[r])
  <1>1. sessions \in [Sessions -> Row] BY DEF IInv, TypeOK
  <1>2. ASSUME NEW r \in Sessions PROVE CompletedRow(r, sessions'[r])
    <2>1. CASE r = s
      <3>1. sessions'[r] = row BY <1>1, <2>1
      <3> QED BY <3>1, <2>1
    <2>2. CASE r # s
      <3>1. sessions'[r] = sessions[r] BY <1>1, <2>2
      <3>2. CompletedRow(r, sessions[r]) BY DEF IInv
      <3> QED BY <3>1, <3>2
    <2> QED BY <2>1, <2>2
  <1> QED BY <1>1, <1>2

\* Nothing happens to the rows.
LEMMA RowsStay == ASSUME IInv, sessions' = sessions
                  PROVE  /\ sessions' \in [Sessions -> Row]
                         /\ \A r \in Sessions : CompletedRow(r, sessions'[r])
  BY DEF IInv, TypeOK

\* The forms in which a row is written, besides its completion.
LEMMA StatusEdit == ASSUME IInv, NEW s \in Sessions, NEW cart \in Cart,
                           NEW status \in {"ACTIVE", "SUSPENDED", "CANCELLED", "ABANDONED"}
  PROVE /\ [sessions[s] EXCEPT !.status = status] \in Row
        /\ [sessions[s] EXCEPT !.status = status, !.cart = cart] \in Row
        /\ CompletedRow(s, [sessions[s] EXCEPT !.status = status])
        /\ CompletedRow(s, [sessions[s] EXCEPT !.status = status, !.cart = cart])
  <1>1. sessions[s] \in Row BY DEF IInv, TypeOK
  <1> QED BY <1>1 DEF Row, Statuses, Closed, CompletedRow

LEMMA CartEdit == ASSUME IInv, NEW s \in Sessions, NEW cart \in Cart
  PROVE /\ [sessions[s] EXCEPT !.cart = cart] \in Row
        /\ CompletedRow(s, [sessions[s] EXCEPT !.cart = cart])
  <1>1. sessions[s] \in Row /\ CompletedRow(s, sessions[s]) BY DEF IInv, TypeOK
  <1> QED BY <1>1 DEF Row, CompletedRow

LEMMA StepEdit == ASSUME IInv, NEW s \in Sessions, NEW cart \in Cart, NEW step \in Steps
  PROVE /\ [sessions[s] EXCEPT !.cart = cart, !.step = step] \in Row
        /\ CompletedRow(s, [sessions[s] EXCEPT !.cart = cart, !.step = step])
  <1>1. sessions[s] \in Row /\ CompletedRow(s, sessions[s]) BY DEF IInv, TypeOK
  <1> QED BY <1>1 DEF Row, CompletedRow

LEMMA InfoEdit == ASSUME IInv, NEW s \in Sessions, NEW info \in Cart
  PROVE /\ [sessions[s] EXCEPT !.info = info] \in Row
        /\ CompletedRow(s, [sessions[s] EXCEPT !.info = info])
  <1>1. sessions[s] \in Row /\ CompletedRow(s, sessions[s]) BY DEF IInv, TypeOK
  <1> QED BY <1>1 DEF Row, CompletedRow

LEMMA QuotedIsLine == ASSUME TypeOK, NEW qty \in Quantities PROVE Quoted(qty) \in Line
  BY DEF TypeOK, Quoted, Line

----------------------------------------------------------------------------
(* The initial state and the steps. *)

LEMMA InitHolds == ASSUME Init PROVE IInv
  <1>1. product \in [stock : Nat, price : Prices]
    BY BoundsAreNumbers DEF Init
  <1>2. TypeOK BY <1>1, AtRestFacts, NoRowFacts DEF Init, TypeOK
  <1>3. \A s \in Sessions : CompletedRow(s, sessions[s])
    BY NoRowFacts DEF Init, CompletedRow
  <1>4. \A t \in Turns : Knows(act[t]) BY AtRestFacts DEF Init, Knows
  <1> QED BY <1>2, <1>3, <1>4 DEF Init, IInv, KeysUnique, OrderedAsConfirmed

LEMMA StutterKeeps == ASSUME IInv, UNCHANGED vars PROVE IInv'
  BY DEF IInv, vars, TypeOK, KeysUnique, OrderedAsConfirmed, CompletedRow, Knows

\* The turn ends and writes no row.
LEMMA EndsKeeps == ASSUME IInv, NEW t \in Turns, Ends(t), sessions' \in [Sessions -> Row],
                          \A s \in Sessions : CompletedRow(s, sessions'[s]),
                          orders' = orders, product' = product, edits' = edits, messages' = messages
                   PROVE  IInv'
  <1>1. Knows(AtRest) BY AtRestFacts DEF Knows
  <1> QED BY <1>1, AtRestFacts, QuietStep DEF Ends, IInv, TypeOK

LEMMA BeginKeeps == ASSUME IInv, NEW t \in Turns,
                           \/ StartOrder(t)
                           \/ \E s \in Sessions : \E what \in Handling(sessions[s].status) :
                                ReadSession(t, s, what)
                           \/ ReadAgain(t) \/ GiveUp(t)
                    PROVE  IInv'
  <1>1. act[t] \in Act /\ Knows(act[t]) /\ messages \in Nat BY DEF IInv, TypeOK
  <1>2. CASE StartOrder(t)
    <2>1. Knows([act[t] EXCEPT !.pc = "start"]) BY <1>1 DEF Knows, Act
    <2>2. [act[t] EXCEPT !.pc = "start"] \in Act BY <1>1 DEF Act
    <2>3. act' = [act EXCEPT ![t] = [act[t] EXCEPT !.pc = "start"]] /\ messages' \in Nat
          /\ UNCHANGED <<sessions, product, orders, edits>>
      BY <1>1, <1>2 DEF StartOrder, Goes, Begins
    <2> QED BY <2>1, <2>2, <2>3, RowsStay, QuietStep
  <1>3. ASSUME NEW s \in Sessions, NEW what \in {"cancel", "suspend", "resume", "defer", "answer"}
        PROVE  Copy(s, what) \in Act /\ Knows(Copy(s, what))
    <2>1. sessions[s] \in Row BY DEF IInv, TypeOK
    <2>2. sessions[s].info \in Cart /\ sessions[s].cart \in Cart /\ sessions[s].step \in Steps
      BY <2>1 DEF Row
    <2>3. PICK held : held = [AtRest EXCEPT !.pc = what, !.ses = s] OBVIOUS
    <2>4. held \in Act /\ held.ses = s /\ held.pc = what
      BY <2>3, AtRestFacts DEF Act
    <2>5. Copy(s, what) \in {held, [held EXCEPT !.cart = sessions[s].cart],
                            [held EXCEPT !.step = sessions[s].step, !.line = sessions[s].info,
                                         !.cart = sessions[s].cart]}
      <3>1. CASE what = "cancel" BY <2>3, <3>1 DEF Copy
      <3>2. CASE what = "answer" BY <2>3, <3>2 DEF Copy
      <3>3. CASE what \notin {"cancel", "answer"}
        <4>1. Copy(s, what) = [held EXCEPT !.cart = sessions[s].cart] BY <2>3, <3>3 DEF Copy
        <4> QED BY <4>1
      <3> QED BY <3>1, <3>2, <3>3
    <2>6. Copy(s, what) \in Act /\ Copy(s, what).ses = s /\ Copy(s, what).pc = what
      BY <2>2, <2>4, <2>5 DEF Act
    <2> QED BY <2>6 DEF Knows
  <1>4. ASSUME NEW s \in Sessions, NEW what \in Handling(sessions[s].status), ReadSession(t, s, what)
        PROVE  IInv'
    <2>1. what \in {"cancel", "suspend", "resume", "defer", "answer"} BY DEF Handling
    <2>2. act' = [act EXCEPT ![t] = Copy(s, what)] /\ messages' \in Nat
          /\ UNCHANGED <<sessions, product, orders, edits>>
      BY <1>1, <1>4 DEF ReadSession, Begins
    <2> QED BY <1>3, <2>1, <2>2, RowsStay, QuietStep
  <1>5. CASE ReadAgain(t)
    <2>1. act[t].ses \in Sessions BY <1>1, <1>5 DEF ReadAgain, Knows
    <2>2. act' = [act EXCEPT ![t] = Copy(act[t].ses, "answer")]
          /\ UNCHANGED <<sessions, product, orders, edits, messages>>
      BY <1>5 DEF ReadAgain
    <2> QED BY <1>1, <1>3, <2>1, <2>2, RowsStay, QuietStep
  <1>6. CASE GiveUp(t)
    <2>1. Ends(t) /\ UNCHANGED <<sessions, product, orders, edits, messages>>
      BY <1>6 DEF GiveUp
    <2> QED BY <2>1, RowsStay, EndsKeeps
  <1> QED BY <1>2, <1>4, <1>5, <1>6

LEMMA CreateSessionKeeps == ASSUME IInv, NEW t \in Turns, NEW s \in Sessions, CreateSession(t, s)
                            PROVE  IInv'
  <1>1. 1 \in Quantities BY BoundsAreNumbers, SomeQuantity DEF Quantities
  <1>2. Quoted(1) \in Cart BY <1>1, QuotedIsLine DEF IInv, Cart
  <1>3. PICK row : row = [NoRow EXCEPT !.status = "ACTIVE", !.step = "quantity", !.info = Quoted(1)]
    OBVIOUS
  <1>4. row \in Row /\ row.status = "ACTIVE" BY <1>2, <1>3, NoRowFacts DEF Row, Statuses, Steps
  <1>5. sessions' = [sessions EXCEPT ![s] = row] /\ Ends(t)
        /\ UNCHANGED <<product, orders, edits, messages>>
    BY <1>3 DEF CreateSession
  <1>6. CompletedRow(s, row) BY <1>4 DEF CompletedRow
  <1> QED BY <1>4, <1>5, <1>6, RowWritten, EndsKeeps

\* The steps that change nothing but the status of a row.
LEMMA StatusKeeps == ASSUME IInv, NEW t \in Turns,
                            CancelSession(t) \/ SuspendSession(t) \/ MarkAwaitingResume(t)
                     PROVE  IInv'
  <1>1. act[t] \in Act /\ Knows(act[t]) BY DEF IInv, TypeOK
  <1>2. PICK s, cart : s = act[t].ses /\ cart = act[t].cart OBVIOUS
  <1>3. s \in Sessions /\ cart \in Cart
    BY <1>1, <1>2 DEF CancelSession, SuspendSession, MarkAwaitingResume, Knows, Act
  <1>4. PICK row \in Row :
          /\ CompletedRow(s, row)
          /\ sessions' = [sessions EXCEPT ![s] = row]
    <2>1. CASE CancelSession(t)
      <3>1. sessions' = [sessions EXCEPT ![s] = [sessions[s] EXCEPT !.status = "CANCELLED"]]
        BY <2>1, <1>2 DEF CancelSession, Updates
      <3> QED BY <3>1, <1>3, StatusEdit
    <2>2. CASE SuspendSession(t)
      <3>1. sessions' = [sessions EXCEPT ![s] = [sessions[s] EXCEPT !.status = "SUSPENDED", !.cart = cart]]
        BY <2>2, <1>2 DEF SuspendSession, Updates
      <3> QED BY <3>1, <1>3, StatusEdit
    <2>3. CASE MarkAwaitingResume(t)
      <3>1. sessions' = [sessions EXCEPT ![s] = [sessions[s] EXCEPT !.cart = cart]]
        BY <2>3, <1>2 DEF MarkAwaitingResume, Updates
      <3> QED BY <3>1, <1>3, CartEdit
    <2> QED BY <2>1, <2>2, <2>3
  <1>5. Ends(t) /\ UNCHANGED <<product, orders, edits, messages>>
    BY DEF CancelSession, SuspendSession, MarkAwaitingResume
  <1> QED BY <1>3, <1>4, <1>5, RowWritten, EndsKeeps

\* A turn writes a row and goes on with its session.
LEMMA MovesKeeps == ASSUME IInv, NEW t \in Turns, NEW s \in Sessions, NEW a \in Act,
                           NEW row \in Row, CompletedRow(s, row), sessions' = [sessions EXCEPT ![s] = row],
                           act' = [act EXCEPT ![t] = a], Knows(a),
                           UNCHANGED <<product, orders, edits, messages>>
                    PROVE  IInv'
  BY RowWritten, QuietStep DEF IInv, TypeOK

\* A turn goes on and writes no row.
LEMMA GoesOnKeeps == ASSUME IInv, NEW t \in Turns, NEW a \in Act, act' = [act EXCEPT ![t] = a], Knows(a),
                            UNCHANGED <<sessions, product, orders, edits, messages>>
                     PROVE  IInv'
  BY RowsStay, QuietStep DEF IInv, TypeOK

\* What a turn carries to WriteStep.
LEMMA WritesFacts == ASSUME IInv, NEW t \in Turns, act[t].ses \in Sessions,
                            NEW next \in Steps, NEW cart \in Cart, Writes(t, next, cart)
                     PROVE  \E a \in Act : act' = [act EXCEPT ![t] = a] /\ Knows(a)
  <1>1. PICK step : step = IF next = act[t].step THEN "same" ELSE next OBVIOUS
  <1>2. step \in Steps \cup {"same"} BY <1>1
  <1>3. PICK a : a = [AtRest EXCEPT !.pc = "write", !.ses = act[t].ses, !.cart = cart, !.step = step]
    OBVIOUS
  <1>4. a \in Act /\ a.pc = "write" /\ a.ses = act[t].ses BY <1>2, <1>3, AtRestFacts DEF Act
  <1>5. act' = [act EXCEPT ![t] = a] BY <1>1, <1>3 DEF Writes
  <1> QED BY <1>4, <1>5 DEF Knows

LEMMA ResumeKeeps == ASSUME IInv, NEW t \in Turns, ResumeSession(t) \/ ResumeLost(t) PROVE IInv'
  <1>1. act[t] \in Act /\ Knows(act[t]) BY DEF IInv, TypeOK
  <1>2. PICK s, cart, a : /\ s = act[t].ses /\ cart = act[t].cart
                          /\ a = [AtRest EXCEPT !.pc = "again", !.ses = s]
    OBVIOUS
  <1>3. s \in Sessions /\ cart \in Cart BY <1>1, <1>2 DEF ResumeSession, ResumeLost, Knows, Act
  <1>4. a \in Act /\ a.pc = "again" /\ a.ses = s BY <1>2, <1>3, AtRestFacts DEF Act
  <1>5. Knows(a) BY <1>3, <1>4 DEF Knows
  <1>6. CASE ResumeSession(t)
    <2>1. /\ sessions' = [sessions EXCEPT ![s] = [sessions[s] EXCEPT !.status = "ACTIVE", !.cart = cart]]
          /\ act' = [act EXCEPT ![t] = a] /\ UNCHANGED <<product, orders, edits, messages>>
      BY <1>2, <1>6 DEF ResumeSession, Updates
    <2>2. /\ [sessions[s] EXCEPT !.status = "ACTIVE", !.cart = cart] \in Row
          /\ CompletedRow(s, [sessions[s] EXCEPT !.status = "ACTIVE", !.cart = cart])
      BY <1>3, StatusEdit
    <2> QED BY <2>1, <2>2, <1>3, <1>4, <1>5, MovesKeeps
  <1>7. CASE ResumeLost(t)
    <2>1. act' = [act EXCEPT ![t] = a] /\ UNCHANGED <<sessions, product, orders, edits, messages>>
      BY <1>2, <1>7 DEF ResumeLost
    <2> QED BY <2>1, <1>4, <1>5, GoesOnKeeps
  <1> QED BY <1>6, <1>7

LEMMA WriteStepKeeps == ASSUME IInv, NEW t \in Turns, WriteStep(t) PROVE IInv'
  <1>1. act[t] \in Act /\ Knows(act[t]) BY DEF IInv, TypeOK
  <1>2. PICK s, cart : s = act[t].ses /\ cart = act[t].cart OBVIOUS
  <1>3. s \in Sessions /\ cart \in Cart BY <1>1, <1>2 DEF WriteStep, Knows, Act
  <1>4. sessions[s] \in Row BY <1>3 DEF IInv, TypeOK
  <1>5. PICK step : step = IF act[t].step = "same" THEN sessions[s].step ELSE act[t].step OBVIOUS
  <1>6. step \in Steps BY <1>1, <1>4, <1>5 DEF Act, Row
  <1>7. sessions' = [sessions EXCEPT ![s] = [sessions[s] EXCEPT !.cart = cart, !.step = step]]
    BY <1>2, <1>5 DEF WriteStep, Updates
  <1>8. Ends(t) /\ UNCHANGED <<product, orders, edits, messages>> BY DEF WriteStep
  <1>9. /\ [sessions[s] EXCEPT !.cart = cart, !.step = step] \in Row
        /\ CompletedRow(s, [sessions[s] EXCEPT !.cart = cart, !.step = step])
    BY <1>3, <1>6, StepEdit
  <1> QED BY <1>3, <1>7, <1>8, <1>9, RowWritten, EndsKeeps

LEMMA AnswerKeeps == ASSUME IInv, NEW t \in Turns,
                            \/ AddProduct(t) \/ CollectDetails(t) \/ RemoveLine(t)
                            \/ \E qty \in Quantities : CollectQuantity(t, qty) \/ SetQuantity(t, qty)
                     PROVE  IInv'
  <1>1. act[t] \in Act /\ Knows(act[t]) /\ product.stock \in Nat /\ TypeOK BY DEF IInv, TypeOK
  <1>2. act[t].ses \in Sessions
    BY <1>1 DEF AddProduct, CollectDetails, RemoveLine, CollectQuantity, SetQuantity, Answering, Knows
  <1>3. act[t].line \in Cart /\ act[t].cart \in Cart BY <1>1 DEF Act
  <1>4. ASSUME NEW next \in Steps, NEW cart \in Cart, NEW info \in Cart, Writes(t, next, cart),
               Updates(t, [sessions[act[t].ses] EXCEPT !.info = info]),
               UNCHANGED <<product, orders, edits, messages>>
        PROVE  IInv'
    <2>1. PICK a \in Act : act' = [act EXCEPT ![t] = a] /\ Knows(a) BY <1>2, <1>4, WritesFacts
    <2>2. sessions' = [sessions EXCEPT ![act[t].ses] = [sessions[act[t].ses] EXCEPT !.info = info]]
      BY <1>4 DEF Updates
    <2> QED BY <1>2, <1>4, <2>1, <2>2, InfoEdit, MovesKeeps
  <1>5. ASSUME NEW next \in Steps, NEW cart \in Cart, Writes(t, next, cart),
               UNCHANGED <<sessions, product, orders, edits, messages>>
        PROVE  IInv'
    <2>1. PICK a \in Act : act' = [act EXCEPT ![t] = a] /\ Knows(a) BY <1>2, <1>5, WritesFacts
    <2> QED BY <1>5, <2>1, GoesOnKeeps
  <1>6. CASE AddProduct(t)
    <2>1. 1 \in Quantities BY BoundsAreNumbers, SomeQuantity DEF Quantities
    <2>2. Quoted(1) \in Cart BY <1>1, <2>1, QuotedIsLine DEF Cart
    <2>3. "quantity" \in Steps BY DEF Steps
    <2> QED BY <1>3, <1>4, <1>6, <2>2, <2>3 DEF AddProduct
  <1>7. CASE CollectDetails(t)
    <2>1. "summary" \in Steps BY DEF Steps
    <2> QED BY <1>3, <1>5, <1>7, <2>1 DEF CollectDetails
  <1>8. CASE RemoveLine(t)
    <2>1. "adding" \in Steps /\ NoLine \in Cart BY DEF Steps, Cart
    <2> QED BY <1>4, <1>8, <2>1 DEF RemoveLine
  <1>9. ASSUME NEW qty \in Quantities, CollectQuantity(t, qty) PROVE IInv'
    <2>1. act[t].line \in Line BY <1>3, <1>9 DEF CollectQuantity, Cart
    <2>2. [act[t].line EXCEPT !.qty = qty, !.quote = product.stock] \in Cart
      BY <1>1, <2>1 DEF Line, Cart
    <2>3. "more" \in Steps BY DEF Steps
    <2> QED BY <1>4, <1>9, <2>2, <2>3 DEF CollectQuantity
  <1>10. ASSUME NEW qty \in Quantities, SetQuantity(t, qty) PROVE IInv'
    <2>1. getCartItems(t) \in Line BY <1>3, <1>10 DEF SetQuantity, getCartItems, Cart
    <2>2. [getCartItems(t) EXCEPT !.qty = qty] \in Cart BY <2>1 DEF Line, Cart
    <2>3. "summary" \in Steps BY DEF Steps
    <2> QED BY <1>5, <1>10, <2>2, <2>3 DEF SetQuantity
  <1> QED BY <1>6, <1>7, <1>8, <1>9, <1>10

\* Up to the gate: nothing is written.
LEMMA CheckKeeps == ASSUME IInv, NEW t \in Turns,
                           FindSoldOut(t) \/ RefuseChanged(t) \/ Revalidate(t) \/ Authorize(t)
                    PROVE  IInv'
  <1>1. act[t] \in Act /\ Knows(act[t]) BY DEF IInv, TypeOK
  <1>2. act[t].ses \in Sessions
    BY <1>1 DEF FindSoldOut, RefuseChanged, Revalidate, Authorize, Confirming, Answering, Knows
  <1>3. act[t].line \in Cart /\ act[t].cart \in Cart BY <1>1 DEF Act
  <1>e. ASSUME Ends(t), UNCHANGED <<sessions, product, orders, edits, messages>> PROVE IInv'
    BY <1>e, RowsStay, EndsKeeps
  <1>4. CASE FindSoldOut(t)
    <2>1. PICK a : a = [AtRest EXCEPT !.pc = "cancel", !.ses = act[t].ses] OBVIOUS
    <2>2. a \in Act /\ a.pc = "cancel" /\ a.ses = act[t].ses BY <1>2, <2>1, AtRestFacts DEF Act
    <2>3. act' = [act EXCEPT ![t] = a] /\ UNCHANGED <<sessions, product, orders, edits, messages>>
      BY <1>4, <2>1 DEF FindSoldOut, Copy
    <2>4. Knows(a) BY <1>2, <2>2 DEF Knows
    <2> QED BY <2>2, <2>3, <2>4, GoesOnKeeps
  <1>5. CASE RefuseChanged(t) BY <1>5, <1>e DEF RefuseChanged
  <1>6. CASE Revalidate(t)
    <2>1. PICK line : line = getCartItems(t) OBVIOUS
    <2>2. line \in Line BY <1>3, <1>6, <2>1 DEF Revalidate, Confirming, getCartItems, Cart
    <2>3. PICK a : a = [act[t] EXCEPT !.pc = "gate", !.line = line] OBVIOUS
    <2>4. a \in Act /\ a.pc = "gate" /\ a.ses = act[t].ses /\ a.line = line
      BY <1>1, <2>2, <2>3 DEF Act, Cart
    <2>5. act' = [act EXCEPT ![t] = a] /\ UNCHANGED <<sessions, product, orders, edits, messages>>
      BY <1>6, <2>1, <2>3 DEF Revalidate
    <2>6. Knows(a) BY <1>2, <2>2, <2>4 DEF Knows
    <2> QED BY <2>4, <2>5, <2>6, GoesOnKeeps
  <1>7. CASE Authorize(t)
    <2>1. CASE Ends(t) BY <1>7, <1>e, <2>1 DEF Authorize
    <2>2. CASE Goes(t, "create")
      <3>1. PICK a : a = [act[t] EXCEPT !.pc = "create"] OBVIOUS
      <3>2. a \in Act /\ a.pc = "create" /\ a.ses = act[t].ses /\ a.line = act[t].line
        BY <1>1, <3>1 DEF Act
      <3>3. act[t].line \in Line BY <1>1, <1>7 DEF Authorize, Knows
      <3>4. Knows(a) BY <1>2, <3>2, <3>3 DEF Knows
      <3>5. act' = [act EXCEPT ![t] = a] BY <2>2, <3>1 DEF Goes
      <3> QED BY <1>7, <3>2, <3>4, <3>5, GoesOnKeeps DEF Authorize
    <2> QED BY <1>7, <2>1, <2>2 DEF Authorize
  <1> QED BY <1>4, <1>5, <1>6, <1>7

\* The turn that has its order knows it.
LEMMA CreatedFacts == ASSUME IInv, NEW t \in Turns, NEW o \in Orders, act[t].pc = "create"
  PROVE LET a == [act[t] EXCEPT !.pc = "created", !.order = o] IN
        /\ a \in Act /\ a.pc = "created" /\ a.order = o
        /\ a.ses = act[t].ses /\ a.ses \in Sessions /\ a.line = act[t].line /\ a.line \in Line
        /\ KeyOf(t) \in Key /\ KeyOf(t).session = a.ses /\ KeyOf(t).line = a.line
  <1>1. act[t] \in Act /\ Knows(act[t]) BY DEF IInv, TypeOK
  <1>2. act[t].ses \in Sessions /\ act[t].line \in Line BY <1>1 DEF Knows
  <1>3. PICK a : a = [act[t] EXCEPT !.pc = "created", !.order = o] OBVIOUS
  <1>4. a \in Act /\ a.pc = "created" /\ a.order = o /\ a.ses = act[t].ses /\ a.line = act[t].line
    BY <1>1, <1>3 DEF Act
  <1>5. KeyOf(t) \in Key /\ KeyOf(t).session = act[t].ses /\ KeyOf(t).line = act[t].line
    BY <1>2 DEF KeyOf, Key
  <1> QED BY <1>2, <1>3, <1>4, <1>5

LEMMA FindOrderKeeps == ASSUME IInv, NEW t \in Turns, NEW o \in Orders, FindOrder(t, o) PROVE IInv'
  <1>1. PICK a : a = [act[t] EXCEPT !.pc = "created", !.order = o] OBVIOUS
  <1>2. /\ a \in Act /\ a.pc = "created" /\ a.order = o
        /\ a.ses \in Sessions /\ a.line \in Line /\ KeyOf(t).session = a.ses
    BY <1>1, CreatedFacts DEF FindOrder
  <1>3. Knows(a) BY <1>2 DEF Knows, FindOrder
  <1>4. act' = [act EXCEPT ![t] = a] /\ UNCHANGED <<sessions, product, orders, edits, messages>>
    BY <1>1 DEF FindOrder
  <1> QED BY <1>2, <1>3, <1>4, GoesOnKeeps

LEMMA CompleteSessionKeeps == ASSUME IInv, NEW t \in Turns, CompleteSession(t) PROVE IInv'
  <1>1. act[t] \in Act /\ Knows(act[t]) BY DEF IInv, TypeOK
  <1>2. PICK s, o : s = act[t].ses /\ o = act[t].order OBVIOUS
  <1>3. s \in Sessions /\ o \in Orders /\ orders[o] # NoOrder /\ orders[o].key.session = s
    BY <1>1, <1>2 DEF CompleteSession, Knows
  <1>4. sessions[s] \in Row BY <1>3 DEF IInv, TypeOK
  <1>5. PICK row : row = [sessions[s] EXCEPT !.status = "COMPLETED", !.order = o] OBVIOUS
  <1>6. row \in Row /\ row.order = o BY <1>3, <1>4, <1>5 DEF Row, Statuses, Closed
  <1>7. CompletedRow(s, row) BY <1>3, <1>6 DEF CompletedRow
  <1>8. sessions' = [sessions EXCEPT ![s] = row] BY <1>2, <1>5 DEF CompleteSession, Updates
  <1>9. "summary" \in Steps /\ act[t].cart \in Cart BY <1>1 DEF Steps, Act
  <1>10. PICK a \in Act : act' = [act EXCEPT ![t] = a] /\ Knows(a)
    BY <1>2, <1>3, <1>9, WritesFacts DEF CompleteSession
  <1> QED BY <1>3, <1>6, <1>7, <1>8, <1>10, MovesKeeps DEF CompleteSession

\* What the orders say stays said, whether one is created or cancelled.
Kept == \A o \in Orders : orders[o] # NoOrder => orders'[o] # NoOrder /\ orders'[o].key = orders[o].key

LEMMA OrdersStep == ASSUME IInv, orders' \in [Orders -> Order \cup {NoOrder}], Kept,
                           sessions' = sessions, edits' \in Nat, messages' = messages,
                           product' \in [stock : Nat, price : Prices],
                           act' \in [Turns -> Act], KeysUnique', OrderedAsConfirmed',
                           \A t \in Turns : act'[t] = act[t] \/ Knows(act[t])'
                    PROVE  IInv'
  <1>1. TypeOK' BY DEF IInv, TypeOK
  <1>2. ASSUME NEW s \in Sessions PROVE CompletedRow(s, sessions[s])'
    <2>1. CompletedRow(s, sessions[s]) BY DEF IInv
    <2> QED BY <2>1 DEF Kept, CompletedRow
  <1>3. ASSUME NEW t \in Turns PROVE Knows(act[t])'
    <2>1. Knows(act[t]) BY DEF IInv
    <2>2. CASE act'[t] = act[t] BY <2>1, <2>2 DEF Kept, Knows
    <2> QED BY <2>2
  <1> QED BY <1>1, <1>2, <1>3 DEF IInv

LEMMA CreateOrderKeeps == ASSUME IInv, NEW t \in Turns, NEW o \in Orders, CreateOrder(t, o) PROVE IInv'
  <1>1. PICK a, new : /\ a = [act[t] EXCEPT !.pc = "created", !.order = o]
                      /\ new = NewOrder(KeyOf(t), act[t].line.qty)
    OBVIOUS
  <1>2. /\ a \in Act /\ a.pc = "created" /\ a.order = o
        /\ a.ses \in Sessions /\ a.line \in Line /\ act[t].line = a.line
        /\ KeyOf(t) \in Key /\ KeyOf(t).session = a.ses /\ KeyOf(t).line = a.line
    BY <1>1, CreatedFacts DEF CreateOrder
  <1>3. /\ product \in [stock : Nat, price : Prices] /\ act \in [Turns -> Act]
        /\ orders \in [Orders -> Order \cup {NoOrder}]
        /\ edits \in Nat
    BY DEF IInv, TypeOK
  <1>4. /\ orders' = [orders EXCEPT ![o] = new] /\ act' = [act EXCEPT ![t] = a]
        /\ product' = [product EXCEPT !.stock = product.stock - a.line.qty]
        /\ product.stock >= a.line.qty
        /\ UNCHANGED <<sessions, edits, messages>>
    BY <1>1, <1>2 DEF CreateOrder
  <1>5. a.line.qty \in Quantities /\ a.line.qty \in Nat
    BY <1>2, BoundsAreNumbers DEF Line, Quantities
  <1>6. /\ new \in Order /\ new # NoOrder /\ new.key = KeyOf(t) /\ new.qty = new.key.line.qty
    <2>1. new = [key |-> KeyOf(t), qty |-> a.line.qty, price |-> product.price, status |-> "confirmed"]
      BY <1>1, <1>2 DEF NewOrder
    <2>2. new \in Order BY <1>2, <1>3, <1>5, <2>1 DEF Order
    <2> QED BY <1>2, <2>1, <2>2, NoOrderIsNoOrder
  <1>7. product.stock - a.line.qty \in Nat BY <1>3, <1>4, <1>5
  <1>8. product' \in [stock : Nat, price : Prices] BY <1>3, <1>4, <1>7
  <1>9. orders' \in [Orders -> Order \cup {NoOrder}] /\ act' \in [Turns -> Act]
    BY <1>2, <1>3, <1>4, <1>6
  <1>10. /\ orders[o] = NoOrder
         /\ \A p \in Orders : orders[p] # NoOrder => orders[p].key # KeyOf(t)
    BY DEF CreateOrder, Committed
  <1>11. orders'[o] = new /\ \A p \in Orders \ {o} : orders'[p] = orders[p] BY <1>3, <1>4
  <1>12. Kept BY <1>10, <1>11 DEF Kept
  <1>13. KeysUnique' BY <1>6, <1>10, <1>11 DEF IInv, KeysUnique
  <1>14. OrderedAsConfirmed' BY <1>6, <1>11 DEF IInv, OrderedAsConfirmed
  <1>15. Knows(a)' BY <1>2, <1>6, <1>11 DEF Knows
  <1>16. \A u \in Turns : act'[u] = act[u] \/ Knows(act[u])' BY <1>3, <1>4, <1>15
  <1> QED BY <1>3, <1>4, <1>8, <1>9, <1>12, <1>13, <1>14, <1>16, OrdersStep

LEMMA MerchantKeeps == ASSUME IInv, Merchant PROVE IInv'
  <1>1. /\ product \in [stock : Nat, price : Prices] /\ act \in [Turns -> Act]
        /\ orders \in [Orders -> Order \cup {NoOrder}] /\ edits \in Nat /\ messages \in Nat
        /\ sessions \in [Sessions -> Row]
    BY DEF IInv, TypeOK
  <1>2. ASSUME NEW stock \in 0..MaxStock, NEW price \in Prices, EditProduct(stock, price) PROVE IInv'
    <2>1. product' \in [stock : Nat, price : Prices] BY <1>2, BoundsAreNumbers DEF EditProduct
    <2>2. edits' \in Nat /\ UNCHANGED <<sessions, orders, messages, act>> BY <1>1, <1>2 DEF EditProduct
    <2>3. Kept /\ KeysUnique' /\ OrderedAsConfirmed'
      BY <2>2 DEF Kept, IInv, KeysUnique, OrderedAsConfirmed
    <2> QED BY <1>1, <2>1, <2>2, <2>3, OrdersStep
  <1>3. ASSUME NEW o \in Orders, CancelOrder(o) PROVE IInv'
    <2>1. PICK new : new = [orders[o] EXCEPT !.status = "cancelled"] OBVIOUS
    <2>2. orders[o] \in Order BY <1>1, <1>3 DEF CancelOrder
    <2>3. new \in Order /\ new # NoOrder /\ new.key = orders[o].key /\ new.qty = orders[o].qty
      BY <2>1, <2>2, NoOrderIsNoOrder DEF Order
    <2>4. /\ orders' = [orders EXCEPT ![o] = new] /\ UNCHANGED <<sessions, edits, messages, act>>
          /\ product' = [product EXCEPT !.stock = product.stock + orders[o].qty]
          /\ orders[o] # NoOrder
      BY <1>3, <2>1 DEF CancelOrder
    <2>5. orders[o].qty \in Nat BY <2>2, BoundsAreNumbers DEF Order, Quantities
    <2>6. product.stock + orders[o].qty \in Nat BY <1>1, <2>5
    <2>7. product' \in [stock : Nat, price : Prices] BY <1>1, <2>4, <2>6
    <2>8. orders' \in [Orders -> Order \cup {NoOrder}] BY <1>1, <2>3, <2>4
    <2>9. orders'[o] = new /\ \A p \in Orders \ {o} : orders'[p] = orders[p] BY <1>1, <2>4
    <2>10. Kept BY <2>3, <2>9 DEF Kept
    <2>11. KeysUnique' BY <2>3, <2>4, <2>9 DEF IInv, KeysUnique
    <2>12. OrderedAsConfirmed' BY <2>3, <2>4, <2>9 DEF IInv, OrderedAsConfirmed
    <2> QED BY <1>1, <2>4, <2>7, <2>8, <2>10, <2>11, <2>12, OrdersStep
  <1>4. ASSUME NEW s \in Sessions, AbandonSession(s) PROVE IInv'
    <2>1. sessions' = [sessions EXCEPT ![s] = [sessions[s] EXCEPT !.status = "ABANDONED"]]
          /\ UNCHANGED <<product, orders, edits, messages, act>>
      BY <1>4 DEF AbandonSession
    <2>2. NoLine \in Cart BY DEF Cart
    <2>3. /\ [sessions[s] EXCEPT !.status = "ABANDONED"] \in Row
          /\ CompletedRow(s, [sessions[s] EXCEPT !.status = "ABANDONED"])
      BY <2>2, StatusEdit
    <2>4. sessions' \in [Sessions -> Row] /\ \A r \in Sessions : CompletedRow(r, sessions'[r])
      BY <2>1, <2>3, RowWritten
    <2>5. TypeOK' BY <2>1, <2>4 DEF IInv, TypeOK
    <2> QED BY <2>1, <2>4, <2>5 DEF IInv, KeysUnique, OrderedAsConfirmed, CompletedRow, Knows
  <1> QED BY <1>2, <1>3, <1>4 DEF Merchant

LEMMA NextKeeps == ASSUME IInv, [Next]_vars PROVE IInv'
  <1>1. ASSUME NEW t \in Turns, Turn(t) PROVE IInv'
    BY <1>1, BeginKeeps, CreateSessionKeeps, StatusKeeps, ResumeKeeps, WriteStepKeeps, AnswerKeeps,
       CheckKeeps, FindOrderKeeps, CreateOrderKeeps, CompleteSessionKeeps DEF Turn, Answer, Confirm
  <1> QED BY <1>1, MerchantKeeps, StutterKeeps DEF Next

----------------------------------------------------------------------------
(* The status of a session and the steps of the ledger. *)

StaysClosed == \A s \in Sessions : sessions[s].status \in Closed => sessions'[s].status \in Closed

LEMMA ClosedRow == ASSUME TypeOK, NEW s \in Sessions, NEW row, sessions' = [sessions EXCEPT ![s] = row],
                          sessions[s].status \in Closed => row.status \in Closed
                   PROVE  StaysClosed
  <1>1. sessions'[s] = row /\ \A r \in Sessions \ {s} : sessions'[r] = sessions[r] BY DEF TypeOK
  <1> QED BY <1>1 DEF StaysClosed

\* The same, when other columns of the row are written.
LEMMA ClosedColumns == ASSUME TypeOK, NEW s \in Sessions, NEW row,
                              sessions' = [sessions EXCEPT ![s] = row], row.status = sessions[s].status
                       PROVE  StaysClosed
  BY ClosedRow

LEMMA ClosedCreated == ASSUME TypeOK, NEW t \in Turns, NEW s \in Sessions, CreateSession(t, s)
                       PROVE  StaysClosed
  <1>1. PICK row : row = [NoRow EXCEPT !.status = "ACTIVE", !.step = "quantity", !.info = Quoted(1)]
    OBVIOUS
  <1>2. sessions' = [sessions EXCEPT ![s] = row] /\ sessions[s].status = "none"
    BY <1>1 DEF CreateSession
  <1> QED BY <1>2, ClosedRow DEF Closed

LEMMA ClosedStatus == ASSUME IInv, NEW t \in Turns,
                             CancelSession(t) \/ SuspendSession(t) \/ ResumeSession(t) \/ MarkAwaitingResume(t)
                      PROVE  StaysClosed
  <1>1. PICK s : s = act[t].ses OBVIOUS
  <1>2. s \in Sessions /\ TypeOK /\ sessions[s] \in Row
    BY <1>1 DEF IInv, TypeOK, Knows, CancelSession, SuspendSession, ResumeSession, MarkAwaitingResume
  <1>4. CASE CancelSession(t)
    <2>1. PICK row : row = [sessions[s] EXCEPT !.status = "CANCELLED"] OBVIOUS
    <2>2. row.status = "CANCELLED" BY <1>2, <2>1 DEF Row
    <2>3. sessions' = [sessions EXCEPT ![s] = row] BY <1>1, <1>4, <2>1 DEF CancelSession, Updates
    <2> QED BY <1>2, <2>2, <2>3, ClosedRow DEF Closed
  <1>5. CASE SuspendSession(t)
    <2>1. PICK row : row = [sessions[s] EXCEPT !.status = "SUSPENDED", !.cart = act[t].cart] OBVIOUS
    <2>2. row.status = "SUSPENDED" BY <1>2, <2>1 DEF Row
    <2>3. sessions' = [sessions EXCEPT ![s] = row] /\ sessions[s].status = "ACTIVE" BY <1>1, <1>5, <2>1 DEF SuspendSession, Updates
    <2> QED BY <1>2, <2>2, <2>3, ClosedRow DEF Closed
  <1>6. CASE ResumeSession(t)
    <2>1. PICK row : row = [sessions[s] EXCEPT !.status = "ACTIVE", !.cart = act[t].cart] OBVIOUS
    <2>2. row.status = "ACTIVE" BY <1>2, <2>1 DEF Row
    <2>3. sessions' = [sessions EXCEPT ![s] = row] /\ sessions[s].status = "SUSPENDED" BY <1>1, <1>6, <2>1 DEF ResumeSession, Updates
    <2> QED BY <1>2, <2>2, <2>3, ClosedRow DEF Closed
  <1>7. CASE MarkAwaitingResume(t)
    <2>1. PICK row : row = [sessions[s] EXCEPT !.cart = act[t].cart] OBVIOUS
    <2>2. row.status = sessions[s].status BY <1>2, <2>1 DEF Row
    <2>3. sessions' = [sessions EXCEPT ![s] = row] BY <1>1, <1>7, <2>1 DEF MarkAwaitingResume, Updates
    <2> QED BY <1>2, <2>2, <2>3, ClosedColumns DEF Closed
  <1> QED BY <1>4, <1>5, <1>6, <1>7

LEMMA ClosedAnswer == ASSUME IInv, NEW t \in Turns,
                             \/ AddProduct(t) \/ RemoveLine(t) \/ WriteStep(t) \/ CompleteSession(t)
                             \/ \E qty \in Quantities : CollectQuantity(t, qty)
                      PROVE  StaysClosed
  <1>1. PICK s : s = act[t].ses OBVIOUS
  <1>2. s \in Sessions /\ TypeOK /\ sessions[s] \in Row
    BY <1>1 DEF IInv, TypeOK, Knows, AddProduct, RemoveLine, WriteStep, CompleteSession, CollectQuantity, Answering
  <1>3. CASE AddProduct(t)
    <2>1. PICK row : row = [sessions[s] EXCEPT !.info = Quoted(1)] OBVIOUS
    <2>2. row.status = sessions[s].status BY <1>2, <2>1 DEF Row
    <2>3. sessions' = [sessions EXCEPT ![s] = row] BY <1>1, <1>3, <2>1 DEF AddProduct, Updates
    <2> QED BY <1>2, <2>2, <2>3, ClosedColumns DEF Closed
  <1>4. CASE RemoveLine(t)
    <2>1. PICK row : row = [sessions[s] EXCEPT !.info = NoLine] OBVIOUS
    <2>2. row.status = sessions[s].status BY <1>2, <2>1 DEF Row
    <2>3. sessions' = [sessions EXCEPT ![s] = row] BY <1>1, <1>4, <2>1 DEF RemoveLine, Updates
    <2> QED BY <1>2, <2>2, <2>3, ClosedColumns DEF Closed
  <1>5. CASE WriteStep(t)
    <2>1. PICK step : step = IF act[t].step = "same" THEN sessions[s].step ELSE act[t].step OBVIOUS
    <2>2. PICK row : row = [sessions[s] EXCEPT !.cart = act[t].cart, !.step = step] OBVIOUS
    <2>3. row.status = sessions[s].status BY <1>2, <2>2 DEF Row
    <2>4. sessions' = [sessions EXCEPT ![s] = row] BY <1>1, <1>5, <2>1, <2>2 DEF WriteStep, Updates
    <2> QED BY <1>2, <2>3, <2>4, ClosedColumns
  <1>6. CASE CompleteSession(t)
    <2>1. PICK row : row = [sessions[s] EXCEPT !.status = "COMPLETED", !.order = act[t].order] OBVIOUS
    <2>2. row.status = "COMPLETED" BY <1>2, <2>1 DEF Row
    <2>3. sessions' = [sessions EXCEPT ![s] = row] BY <1>1, <1>6, <2>1 DEF CompleteSession, Updates
    <2> QED BY <1>2, <2>2, <2>3, ClosedRow DEF Closed
  <1>7. CASE \E qty \in Quantities : CollectQuantity(t, qty)
    <2>1. PICK qty \in Quantities : CollectQuantity(t, qty) BY <1>7
    <2>2. PICK line : line = [act[t].line EXCEPT !.qty = qty, !.quote = product.stock] OBVIOUS
    <2>3. PICK row : row = [sessions[s] EXCEPT !.info = line] OBVIOUS
    <2>4. row.status = sessions[s].status BY <1>2, <2>3 DEF Row
    <2>5. sessions' = [sessions EXCEPT ![s] = row] BY <1>1, <2>1, <2>2, <2>3 DEF CollectQuantity, Updates
    <2> QED BY <1>2, <2>4, <2>5, ClosedColumns
  <1> QED BY <1>3, <1>4, <1>5, <1>6, <1>7

LEMMA ClosedSame == ASSUME TypeOK, sessions' = sessions PROVE StaysClosed
  BY DEF StaysClosed

LEMMA ClosedMerchant == ASSUME TypeOK, Merchant PROVE StaysClosed
  <1>1. ASSUME NEW s \in Sessions, AbandonSession(s) PROVE StaysClosed
    <2>1. PICK row : row = [sessions[s] EXCEPT !.status = "ABANDONED"] OBVIOUS
    <2>2. sessions[s] \in Row BY DEF TypeOK
    <2>3. row.status = "ABANDONED" BY <2>1, <2>2 DEF Row
    <2>4. sessions' = [sessions EXCEPT ![s] = row] BY <1>1, <2>1 DEF AbandonSession
    <2> QED BY <2>3, <2>4, ClosedRow DEF Closed
  <1>2. ASSUME NEW stock, NEW price, EditProduct(stock, price) PROVE StaysClosed
    BY <1>2, ClosedSame DEF EditProduct
  <1>3. ASSUME NEW o \in Orders, CancelOrder(o) PROVE StaysClosed
    BY <1>3, ClosedSame DEF CancelOrder
  <1> QED BY <1>1, <1>2, <1>3 DEF Merchant

LEMMA ClosedTurn == ASSUME IInv, NEW t \in Turns, Turn(t) PROVE StaysClosed
  <1> USE DEF IInv
  <1>1. CASE StartOrder(t) \/ ReadAgain(t) \/ GiveUp(t) \/ ResumeLost(t)
    BY <1>1, ClosedSame DEF StartOrder, ReadAgain, GiveUp, ResumeLost
  <1>2. ASSUME NEW s \in Sessions, NEW what, ReadSession(t, s, what) PROVE StaysClosed
    BY <1>2, ClosedSame DEF ReadSession
  <1>3. CASE CollectDetails(t) \/ \E qty \in Quantities : SetQuantity(t, qty)
    BY <1>3, ClosedSame DEF CollectDetails, SetQuantity
  <1>4. CASE FindSoldOut(t) \/ RefuseChanged(t) \/ Revalidate(t) \/ Authorize(t)
    BY <1>4, ClosedSame DEF FindSoldOut, RefuseChanged, Revalidate, Authorize
  <1>5. CASE \E o \in Orders : FindOrder(t, o) \/ CreateOrder(t, o)
    BY <1>5, ClosedSame DEF FindOrder, CreateOrder
  <1> QED BY <1>1, <1>2, <1>3, <1>4, <1>5, ClosedCreated, ClosedStatus, ClosedAnswer
        DEF Turn, Answer, Confirm

LEMMA ClosedNext == ASSUME IInv, [Next]_vars PROVE StaysClosed
  <1>1. CASE UNCHANGED vars BY <1>1, ClosedSame DEF vars, IInv
  <1>2. ASSUME NEW t \in Turns, Turn(t) PROVE StaysClosed BY <1>2, ClosedTurn
  <1> QED BY <1>1, <1>2, ClosedMerchant DEF Next, IInv

\* A step that sells nothing leaves the ledger as it is.
LEMMA LedgerSame == ASSUME product' = product, orders' = orders PROVE [Ledger!Next]_<<product, orders>>
  OBVIOUS

LEMMA LedgerSells == ASSUME IInv, NEW t \in Turns, NEW o \in Orders, CreateOrder(t, o)
                     PROVE  Ledger!Sell(o)
  <1>1. PICK a : a = act[t] OBVIOUS
  <1>2. PICK new : new = NewOrder(KeyOf(t), a.line.qty) OBVIOUS
  <1>3. a.pc = "create" BY <1>1 DEF CreateOrder
  <1>4. a.line \in Line /\ KeyOf(t) \in Key BY <1>1, <1>3, CreatedFacts
  <1>5. a.line.qty \in Quantities BY <1>4 DEF Line
  <1>6. product \in [stock : Nat, price : Prices] /\ orders \in [Orders -> Order \cup {NoOrder}]
    BY DEF IInv, TypeOK
  <1>7. /\ orders[o] = NoOrder /\ orders' = [orders EXCEPT ![o] = new]
        /\ product.stock >= a.line.qty
        /\ product' = [product EXCEPT !.stock = product.stock - a.line.qty]
        /\ \A p \in Orders : orders[p] # NoOrder => orders[p].key # KeyOf(t)
    BY <1>1, <1>2 DEF CreateOrder, Committed
  <1>8. new = [key |-> KeyOf(t), qty |-> a.line.qty, price |-> product.price, status |-> "confirmed"]
    BY <1>2 DEF NewOrder
  <1>9. new \in Ledger!Sale BY <1>4, <1>5, <1>6, <1>8 DEF Ledger!Sale
  <1>10. orders'[o] = new BY <1>6, <1>7
  <1>11. new.key = KeyOf(t) /\ new.qty = a.line.qty /\ new.price = product.price BY <1>8
  <1> QED BY <1>7, <1>9, <1>10, <1>11 DEF Ledger!Sell

LEMMA LedgerTurn == ASSUME IInv, NEW t \in Turns, Turn(t) PROVE [Ledger!Next]_<<product, orders>>
  <1>1. CASE StartOrder(t) \/ ReadAgain(t) \/ GiveUp(t) \/ ResumeLost(t)
    BY <1>1, LedgerSame DEF StartOrder, ReadAgain, GiveUp, ResumeLost
  <1>2. ASSUME NEW s \in Sessions, NEW what, ReadSession(t, s, what) \/ CreateSession(t, s)
        PROVE  [Ledger!Next]_<<product, orders>>
    BY <1>2, LedgerSame DEF ReadSession, CreateSession
  <1>3. CASE CancelSession(t) \/ SuspendSession(t) \/ ResumeSession(t) \/ MarkAwaitingResume(t)
    BY <1>3, LedgerSame DEF CancelSession, SuspendSession, ResumeSession, MarkAwaitingResume
  <1>4. CASE Answer(t)
    BY <1>4, LedgerSame DEF Answer, AddProduct, CollectDetails, RemoveLine, WriteStep,
                            CollectQuantity, SetQuantity
  <1>5. CASE FindSoldOut(t) \/ RefuseChanged(t) \/ Revalidate(t) \/ Authorize(t) \/ CompleteSession(t)
    BY <1>5, LedgerSame DEF FindSoldOut, RefuseChanged, Revalidate, Authorize, CompleteSession
  <1>6. ASSUME NEW o \in Orders, FindOrder(t, o) PROVE [Ledger!Next]_<<product, orders>>
    BY <1>6, LedgerSame DEF FindOrder
  <1>7. ASSUME NEW o \in Orders, CreateOrder(t, o) PROVE [Ledger!Next]_<<product, orders>>
    BY <1>7, LedgerSells DEF Ledger!Next
  <1> QED BY <1>1, <1>2, <1>3, <1>4, <1>5, <1>6, <1>7 DEF Turn, Confirm

LEMMA LedgerNext == ASSUME IInv, [Next]_vars PROVE [Ledger!Next]_<<product, orders>>
  <1>1. CASE UNCHANGED vars BY <1>1, LedgerSame DEF vars
  <1>2. ASSUME NEW t \in Turns, Turn(t) PROVE [Ledger!Next]_<<product, orders>> BY <1>2, LedgerTurn
  <1>3. ASSUME NEW stock \in 0..MaxStock, NEW price \in Prices, EditProduct(stock, price)
        PROVE  [Ledger!Next]_<<product, orders>>
    <2>1. product' \in [stock : Nat, price : Prices] BY <1>3, BoundsAreNumbers DEF EditProduct
    <2> QED BY <1>3, <2>1 DEF EditProduct, Ledger!Next, Ledger!Restock
  <1>4. ASSUME NEW o \in Orders, CancelOrder(o) PROVE [Ledger!Next]_<<product, orders>>
    <2>1. Ledger!TakeBack(o) BY <1>4 DEF CancelOrder, Ledger!TakeBack
    <2> QED BY <2>1 DEF Ledger!Next
  <1>5. ASSUME NEW s \in Sessions, AbandonSession(s) PROVE [Ledger!Next]_<<product, orders>>
    BY <1>5, LedgerSame DEF AbandonSession
  <1> QED BY <1>1, <1>2, <1>3, <1>4, <1>5 DEF Next, Merchant

LEMMA LedgerInit == ASSUME Init PROVE Ledger!Init
  BY BoundsAreNumbers DEF Init, Ledger!Init

----------------------------------------------------------------------------
(* The theorems. *)

\* The inductive invariant holds of every execution, however the turns of
\* handleOrderFlow overlap.
THEOREM Invariance == Spec => []IInv
  BY InitHolds, NextKeeps, PTL DEF Spec

\* Every column and every copy a turn holds stays in its type; with it, the
\* stock that createOrder deducts from never goes below zero.
THEOREM Typing == Spec => []TypeOK
  <1>1. IInv => TypeOK BY DEF IInv
  <1> QED BY <1>1, Invariance, PTL

\* The order of _createOrderCore has the quantity of the summary that the
\* customer confirmed, for any number of overlapping turns.
THEOREM Confirmed == Spec => []OrderedAsConfirmed
  <1>1. IInv => OrderedAsConfirmed BY DEF IInv
  <1> QED BY <1>1, Invariance, PTL

\* The session that handleOrderSummary marks COMPLETED names an order that
\* exists and was made of that session.
THEOREM Completed == Spec => []CompletedIsOrdered
  <1>1. IInv => CompletedIsOrdered BY DEF IInv, CompletedRow, CompletedIsOrdered
  <1> QED BY <1>1, Invariance, PTL

\* No late write of another turn opens a closed session again.
THEOREM Closedness == Spec => ClosedStaysClosed
  <1>1. IInv /\ [Next]_vars => [StaysClosed]_vars BY ClosedNext
  <1> QED BY <1>1, Invariance, PTL DEF Spec, ClosedStaysClosed, StaysClosed

\* The chat, with its unconditional writes, implements the ledger of sales.
THEOREM Implements == Spec => SalesImplemented
  <1>1. IInv /\ [Next]_vars => [Ledger!Next]_<<product, orders>> BY LedgerNext
  <1> QED BY <1>1, LedgerInit, Invariance, PTL DEF Spec, SalesImplemented, Ledger!Spec

\* Of one confirmed summary there is one order, however often the confirmation
\* is retried or sent again (the idempotency key of _createOrderCore).
THEOREM SoldOnce ==
    Spec => [](\A o, p \in Orders : orders[o] # NoOrder /\ orders[p] # NoOrder
                                      /\ orders[o].key = orders[p].key => o = p)
  <1>1. IInv => KeysUnique BY DEF IInv
  <1> QED BY <1>1, Invariance, PTL DEF KeysUnique
====
