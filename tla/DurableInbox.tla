----------------------------- MODULE DurableInbox -----------------------------
(***************************************************************************)
(* What the webhook intake promises: an event that was accepted stays open *)
(* until its business effect happened or it was given up, and it is never  *)
(* reopened.  Two kinds of events may be settled without an effect: the    *)
(* ignorable ones (nothing to do) and the excused ones (a hole the         *)
(* implementation leaves, kept visible here).                              *)
(***************************************************************************)
CONSTANTS
    Events,     \* provider events
    Ignorable   \* events that ask for nothing

VARIABLES
    inbox,      \* "new", "open", "done" or "dead"
    served,     \* events whose business effect has happened
    excused     \* events that may be settled without it

vars == <<inbox, served, excused>>

Init ==
    /\ inbox = [e \in Events |-> "new"]
    /\ served = {}
    /\ excused = {}

\* A delivery is accepted, durably.
Accept(e) ==
    /\ inbox[e] = "new"
    /\ inbox' = [inbox EXCEPT ![e] = "open"]
    /\ UNCHANGED <<served, excused>>

\* Effects happen, in any number and possibly again.
Serve ==
    /\ served \subseteq served'
    /\ UNCHANGED <<inbox, excused>>

Excuse ==
    /\ excused \subseteq excused'
    /\ UNCHANGED <<inbox, served>>

\* An open event is settled, but only if there is nothing left to do for it.
Settle(e) ==
    /\ inbox[e] = "open"
    /\ e \in served \cup excused \cup Ignorable
    /\ inbox' = [inbox EXCEPT ![e] = "done"]
    /\ UNCHANGED <<served, excused>>

\* An open event is given up: it waits for an operator.
GiveUp(e) ==
    /\ inbox[e] = "open"
    /\ inbox' = [inbox EXCEPT ![e] = "dead"]
    /\ UNCHANGED <<served, excused>>

\* Retention: closed events are forgotten, never open ones.
Forget(gone) ==
    /\ \A e \in gone : inbox[e] \in {"done", "dead"}
    /\ inbox' = [e \in Events |-> IF e \in gone THEN "new" ELSE inbox[e]]
    /\ UNCHANGED <<served, excused>>

Next ==
    \/ \E e \in Events : Accept(e) \/ Settle(e) \/ GiveUp(e)
    \/ Serve \/ Excuse
    \/ \E gone \in SUBSET Events : Forget(gone)

Spec == Init /\ [][Next]_vars

=============================================================================
