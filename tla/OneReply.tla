---- MODULE OneReply ----
(***************************************************************************)
(* What the automatic reply promises about each turn: it is committed to   *)
(* the provider only while nobody has barred it, may be taken back until   *)
(* Meta has accepted it, is accepted at most once, and is shown as sent    *)
(* only after that, for good.                                              *)
(***************************************************************************)
EXTENDS Naturals

CONSTANT Turns

VARIABLES
    barred,     \* turns a person has superseded before they were committed
    committed,  \* turns that crossed the send boundary
    delivered,  \* how often Meta accepted the reply
    shown       \* turns whose reply is confirmed on its row

vars == <<barred, committed, delivered, shown>>

Init ==
    /\ barred = {}
    /\ committed = {}
    /\ delivered = [t \in Turns |-> 0]
    /\ shown = {}

Bar ==
    /\ \E S \in SUBSET (Turns \ committed) : barred' = barred \cup S
    /\ UNCHANGED <<committed, delivered, shown>>

Commit(t) ==
    /\ t \notin barred \cup committed
    /\ delivered[t] = 0
    /\ committed' = committed \cup {t}
    /\ UNCHANGED <<barred, delivered, shown>>

TakeBack(t) ==
    /\ t \in committed
    /\ delivered[t] = 0
    /\ committed' = committed \ {t}
    /\ UNCHANGED <<barred, delivered, shown>>

Accept(t) ==
    /\ t \in committed
    /\ delivered[t] = 0
    /\ delivered' = [delivered EXCEPT ![t] = 1]
    /\ UNCHANGED <<barred, committed, shown>>

Show(t) ==
    /\ delivered[t] = 1
    /\ shown' = shown \cup {t}
    /\ UNCHANGED <<barred, committed, delivered>>

Next ==
    \/ Bar
    \/ \E t \in Turns : Commit(t) \/ TakeBack(t) \/ Accept(t) \/ Show(t)

Spec == Init /\ [][Next]_vars
====
