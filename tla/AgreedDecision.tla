---- MODULE AgreedDecision ----
(***************************************************************************)
(* What the version of a decision row promises: whoever writes the row     *)
(* writes over all of what he has read, not only over its number, and a    *)
(* merchant resolves the decision that is on his screen, for the facts     *)
(* that decision is about.  The number grows with every write.             *)
(***************************************************************************)
EXTENDS Naturals

CONSTANTS Actors, Merchants, NoRow

VARIABLES
    decision,   \* the row, NoRow before the first evaluation
    copies,     \* the row as each actor's request has read it
    screens     \* the row each merchant looks at

Init ==
    /\ decision = NoRow
    /\ copies = [a \in Actors |-> NoRow]
    /\ screens = [m \in Merchants |-> NoRow]

Has(a, row) == copies' = [copies EXCEPT ![a] = row]

Read(a) == Has(a, decision) /\ UNCHANGED <<decision, screens>>

Drop(a) == Has(a, NoRow) /\ UNCHANGED <<decision, screens>>

Show(m) ==
    /\ screens' = [screens EXCEPT ![m] = copies[m]]
    /\ Has(m, NoRow)
    /\ UNCHANGED decision

First(a) ==
    /\ decision = NoRow /\ decision' # NoRow
    /\ decision'.version = 1 /\ decision'.resolution = "none"
    /\ Has(a, decision')
    /\ UNCHANGED screens

\* New reasons or new facts; what was resolved stays with the facts it was
\* resolved for.
Revise(a) ==
    /\ decision # NoRow /\ copies[a] = decision
    /\ decision' = [decision EXCEPT !.version = @ + 1,
                                    !.reasons = decision'.reasons,
                                    !.fingerprint = decision'.fingerprint]
    /\ Has(a, NoRow)
    /\ UNCHANGED screens

Resolve(m) ==
    /\ decision # NoRow /\ copies[m] = decision /\ screens[m] = decision
    /\ decision' = [decision EXCEPT !.version = @ + 1,
                                    !.resolution = decision'.resolution,
                                    !.resolutionFingerprint = decision.fingerprint,
                                    !.reviewed = decision'.reviewed]
    /\ Has(m, NoRow)
    /\ UNCHANGED screens

\* The courier's verdict is noted on whatever decision stands.
Note ==
    /\ decision # NoRow
    /\ decision' = [decision EXCEPT !.version = @ + 1, !.outcome = "recorded"]
    /\ UNCHANGED <<copies, screens>>

Next ==
    \/ \E a \in Actors : Read(a) \/ Drop(a) \/ First(a) \/ Revise(a)
    \/ \E m \in Merchants : Show(m) \/ Resolve(m)
    \/ Note

Spec == Init /\ [][Next]_<<decision, copies, screens>>
====
