---- MODULE MCRefusals ----
(* OrderTaking with a note of the summary each session was last offered when *)
(* a confirmation was refused.                                               *)
EXTENDS OrderTaking

VARIABLE offered

\* handleCurrentStep answers with the refreshed summary and the words "Please
\* confirm the updated order before placing it."
Noted(s) ==
    IF \E t \in Turns : act[t].ses = s /\ RefuseChanged(t)
    THEN Refreshed(CHOOSE t \in Turns : act[t].ses = s /\ RefuseChanged(t))
    ELSE offered[s]

NotingSpec ==
    /\ Init /\ offered = [s \in Sessions |-> NoLine]
    /\ [][Next /\ offered' = [s \in Sessions |-> Noted(s)]]_<<vars, offered>>

\* A customer who confirms the updated order is not refused over the same
\* change again: what was shown after the first refusal is what the second
\* confirmation is compared with.
RefusedOnce ==
    [][\A t \in Turns : RefuseChanged(t) => offered[act[t].ses] # Refreshed(t)]_<<vars, offered>>
====
