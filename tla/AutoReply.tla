---- MODULE AutoReply ----
(***************************************************************************)
(* The automatic reply to a customer turn (jobs/message-worker.js), from   *)
(* the moment a worker takes the job until the outcome of the provider     *)
(* call is on the candidate row, against everything that may happen        *)
(* meanwhile: a second worker, a merchant who replies, takes over, hands   *)
(* back or closes, a STOP, a mode change, an echo from Meta, and failures. *)
(*                                                                         *)
(* One conversation.  A turn is one job with a fixed set of customer       *)
(* messages, hence one dedup key, one durable turn row and one candidate   *)
(* row (its idempotency key is unique in the conversation).                *)
(***************************************************************************)
EXTENDS Naturals, FiniteSets

CONSTANTS
    Turns,          \* customer turns
    Workers,        \* executions the worker process can have at once
    Parts,          \* bodies of one reply: the text and its attachments
    MaxAttempts,    \* attempts of a job before it is dead-lettered
    MaxStalls,      \* times a job whose worker vanished is given back
    FaultKinds,     \* which disturbances this instance allows
    MaxFaults,      \* bound: how many of them
    HumanKinds,     \* which actions people take
    MaxHumans       \* bound: how many of them

Nobody == "nobody"
Merchant == "merchant"
Lost == "lost"

ASSUME PeopleAreNotWorkers ==
    /\ {Nobody, Merchant, Lost} \cap Workers = {}
    /\ Nobody \notin Turns

ASSUME BoundsAreNumbers ==
    /\ Parts \in Nat \ {0}
    /\ MaxAttempts \in Nat \ {0}
    /\ {MaxStalls, MaxFaults, MaxHumans} \subseteq Nat

VARIABLES
    job,        \* BullMQ job of each turn
    run,        \* what each worker execution is doing
    dedup,      \* turns whose Redis dedup key is set
    started,    \* turns with a durable turn row, hence a turn_started_at
    row,        \* candidate message of each turn
    conv,       \* the conversation, its pause key, the shop's mode, consent
    obsolete,   \* turns that started before the Resume boundary
    lock,       \* holder of the conversation's delivery lock
    merchant,   \* where the merchant's own reply stands
    copies,     \* copies of each part of each reply that Meta accepted
    superseded, \* history: turns in flight when a person stepped in
    faults,
    humans

vars == <<job, run, dedup, started, row, conv, obsolete, lock, merchant,
          copies, superseded, faults, humans>>

\* For UNCHANGED: the job's own bookkeeping, and all that is not the worker's.
queue == <<job, dedup, started>>
world == <<conv, obsolete, merchant, superseded, humans>>

JobStates == {"absent", "waiting", "active", "completed", "failed"}
RowStates == {"NONE", "SEND_PENDING", "HELD", "DISMISSED", "SENT", "FAILED"}
Steps == {"idle", "dedup", "start", "guard", "generate", "sendGuard",
          "storeHeld", "storeBlocked", "store", "handoff", "claim", "refused",
          "recheck", "lock", "boundary", "revalidate", "withdraw", "hold", "call",
          "record", "fail", "release", "finish"}
Endings == {"completed", "retry", "delayed", "dead"}
Modes == {"AUTO", "DRAFT", "MANUAL"}

\* HELD stands for DRAFT_READY too: both wait for a person.
Row == [state : RowStates, claimed : BOOLEAN, attempted : BOOLEAN,
        mid : BOOLEAN, old : BOOLEAN]
Job == [state : JobStates, owner : Workers \cup {Nobody},
        made : Nat, stalls : 0..MaxStalls]
Run == [at : Steps, turn : Turns \cup {Nobody}, reuse : BOOLEAN,
        auto : BOOLEAN, part : Nat, how : Endings, escalate : BOOLEAN]

NoRow == [state |-> "NONE", claimed |-> FALSE, attempted |-> FALSE,
          mid |-> FALSE, old |-> FALSE]
Candidate(s) == [NoRow EXCEPT !.state = s]
Idle == [at |-> "idle", turn |-> Nobody, reuse |-> FALSE, auto |-> FALSE,
         part |-> 0, how |-> "completed", escalate |-> FALSE]

TypeOK ==
    /\ job \in [Turns -> Job]
    /\ run \in [Workers -> Run]
    /\ \A w \in Workers : run[w].at # "idle" => run[w].turn \in Turns
    /\ dedup \subseteq Turns
    /\ started \subseteq Turns
    /\ row \in [Turns -> Row]
    /\ conv \in [hitl : BOOLEAN, open : BOOLEAN, paused : BOOLEAN,
                 mode : Modes, optedOut : BOOLEAN, humanLast : BOOLEAN,
                 bounded : BOOLEAN]
    /\ obsolete \subseteq Turns
    /\ lock \in Workers \cup {Nobody, Merchant, Lost}
    /\ merchant \in {"idle", "store", "hold", "pause", "send"}
    /\ copies \in [Turns -> [1..Parts -> Nat]]
    /\ superseded \subseteq Turns
    /\ faults \in 0..MaxFaults
    /\ humans \in 0..MaxHumans

Init ==
    /\ job = [t \in Turns |-> [state |-> "absent", owner |-> Nobody,
                               made |-> 0, stalls |-> 0]]
    /\ run = [w \in Workers |-> Idle]
    /\ dedup = {}
    /\ started = {}
    /\ row = [t \in Turns |-> NoRow]
    /\ conv = [hitl |-> FALSE, open |-> TRUE, paused |-> FALSE,
               mode |-> "AUTO", optedOut |-> FALSE, humanLast |-> FALSE,
               bounded |-> FALSE]
    /\ obsolete = {}
    /\ lock = Nobody
    /\ merchant = "idle"
    /\ copies = [t \in Turns |-> [p \in 1..Parts |-> 0]]
    /\ superseded = {}
    /\ faults = 0
    /\ humans = 0

(***************************************************************************)
(* Rows.                                                                   *)
(***************************************************************************)

Confirmed(r) == r.state = "SENT" /\ r.mid

\* The conditional updates of the code all ask for a pending row that no
\* provider message id has reached.
Pending(r) == r.state = "SEND_PENDING" /\ ~r.mid

\* A row nobody has tried to send yet can still be withdrawn.
Cancellable(r) ==
    r.state \notin {"NONE", "DISMISSED"} /\ ~Confirmed(r) /\ ~r.attempted

\* finalizeAiMessage before any outcome: a turn from before the Resume
\* boundary is dismissed, whoever finalizes it.
Outdated(t) == t \in obsolete /\ ~row[t].attempted /\ ~row[t].mid

\* finalizeAiMessage with a held reason.
Held(t) ==
    LET r == row[t]
    IN IF Outdated(t) THEN [r EXCEPT !.state = "DISMISSED"]
       ELSE IF r.state # "DISMISSED" /\ ~r.mid /\ ~r.attempted
            THEN [r EXCEPT !.state = "HELD"]
            ELSE r

\* releaseAutomaticCandidate.
Released(r) ==
    IF Pending(r) THEN [r EXCEPT !.claimed = FALSE, !.attempted = FALSE,
                                 !.old = FALSE]
    ELSE r

\* A claim that a later attempt, or anyone after ten minutes, may undo.
StaleClaim(t) ==
    /\ row[t].state = "SEND_PENDING"
    /\ row[t].claimed
    /\ ~row[t].attempted
    /\ job[t].made > 0 \/ row[t].old

\* releaseStaleProviderClaim: refused when the send has begun meanwhile.
Unclaimed(r) == [r EXCEPT !.claimed = FALSE, !.old = FALSE]

\* holdPendingAiCandidates.
HoldPending ==
    [t \in Turns |-> IF Pending(row[t]) /\ ~row[t].attempted
                     THEN [row[t] EXCEPT !.state = "HELD"] ELSE row[t]]

\* Turns that have begun and have not crossed the send boundary.
InFlight == {t \in started : ~row[t].attempted}

\* getAutomaticSendGuard: any reason why the shop, the people or the
\* customer do not want an automatic message now.
SomeoneObjects ==
    \/ conv.mode # "AUTO"
    \/ conv.hitl
    \/ ~conv.open
    \/ conv.paused
    \/ conv.optedOut
    \/ conv.humanLast

(***************************************************************************)
(* The worker.                                                             *)
(***************************************************************************)

Fault(kind) ==
    /\ kind \in FaultKinds
    /\ faults < MaxFaults
    /\ faults' = faults + 1

At(w, step) == run[w].at = step
Go(w, step) == run' = [run EXCEPT ![w].at = step]
End(w, ending) == run' = [run EXCEPT ![w].at = "finish", ![w].how = ending]

\* A worker takes a waiting job.
Take(w, t) ==
    /\ At(w, "idle")
    /\ job[t].state = "waiting"
    /\ job' = [job EXCEPT ![t].state = "active", ![t].owner = w]
    /\ run' = [run EXCEPT ![w] = [Idle EXCEPT !.at = "dedup", !.turn = t]]
    /\ UNCHANGED <<dedup, started, row, lock, copies, faults, world>>

\* Guard 1.  A key that is taken means a duplicate, unless the candidate
\* shows a stale claim; then the claim is undone and the key removed (and not
\* set again by this execution).
ClaimDedupKey(w) ==
    LET t == run[w].turn
    IN /\ At(w, "dedup")
       /\ \/ /\ t \notin dedup
             /\ dedup' = dedup \cup {t}
             /\ Go(w, "start")
             /\ UNCHANGED row
          \/ /\ t \in dedup
             /\ StaleClaim(t)
             /\ row' = [row EXCEPT ![t] = Unclaimed(@)]
             /\ dedup' = dedup \ {t}
             /\ Go(w, "start")
          \/ /\ t \in dedup
             /\ ~StaleClaim(t)
             /\ End(w, "completed")
             /\ UNCHANGED <<row, dedup>>
       /\ UNCHANGED <<job, started, lock, copies, faults, world>>

\* startTurn: the turn's start is durable and keeps its first time.
StartTurn(w) ==
    /\ At(w, "start")
    /\ started' = started \cup {run[w].turn}
    /\ Go(w, "guard")
    /\ UNCHANGED <<job, dedup, row, lock, copies, faults, world>>

StartTurnFails(w) ==
    /\ At(w, "start")
    /\ Fault("dependency")
    /\ End(w, "retry")
    /\ UNCHANGED <<queue, row, lock, copies, world>>

\* Guards 2 to 4 and the candidate an earlier attempt left behind.
Unattended == conv.hitl \/ ~conv.open \/ conv.paused \/ conv.mode = "MANUAL"

Reusable(t) ==
    /\ row[t].state = "SEND_PENDING"
    /\ ~row[t].attempted
    /\ conv.mode = "AUTO"
    /\ row[t].claimed => StaleClaim(t)

Guard(w) ==
    LET t == run[w].turn
        auto == conv.mode = "AUTO"
    IN /\ At(w, "guard")
       /\ \/ /\ Unattended
             /\ End(w, "completed")
             /\ UNCHANGED row
          \/ /\ ~Unattended
             /\ row[t].state = "NONE"
             /\ run' = [run EXCEPT ![w].at = "generate", ![w].auto = auto]
             /\ UNCHANGED row
          \/ /\ ~Unattended
             /\ row[t].state # "NONE"
             /\ Reusable(t)
             /\ row' = [row EXCEPT ![t] = Unclaimed(@)]
             /\ run' = [run EXCEPT ![w].at = "generate", ![w].auto = auto,
                                   ![w].reuse = TRUE]
          \/ /\ ~Unattended
             /\ row[t].state # "NONE"
             /\ ~Reusable(t)
             /\ End(w, "completed")
             /\ UNCHANGED row
       /\ UNCHANGED <<queue, lock, copies, faults, world>>

\* The pipeline has an answer that passes grounding, confidence and policy;
\* the mode is read again.
Answer(w) ==
    /\ At(w, "generate")
    /\ run[w].auto
    /\ conv.mode = "AUTO"
    /\ Go(w, "sendGuard")
    /\ UNCHANGED <<queue, row, lock, copies, faults, world>>

\* A draft, a changed mode, a disconnected channel or a policy denial keeps
\* the answer for a person; low confidence does so and calls one.
Withhold(w) ==
    /\ At(w, "generate")
    /\ \E escalate \in BOOLEAN :
          /\ escalate => run[w].auto
          /\ run' = [run EXCEPT ![w].at = "storeHeld",
                                ![w].escalate = escalate]
    /\ UNCHANGED <<queue, row, lock, copies, faults, world>>

\* An angry customer, or nothing truthful to say: only a person helps.
Suppress(w) ==
    /\ At(w, "generate")
    /\ Go(w, "handoff")
    /\ UNCHANGED <<queue, row, lock, copies, faults, world>>

GenerationFails(w) ==
    /\ At(w, "generate")
    /\ \/ Fault("dependency") /\ End(w, "retry")
       \/ Fault("rate") /\ End(w, "delayed")     \* policy RATE_LIMIT
    /\ UNCHANGED <<queue, row, lock, copies, world>>

\* The last reversible look before the candidate is stored.
SendGuard(w) ==
    /\ At(w, "sendGuard")
    /\ IF SomeoneObjects THEN Go(w, "storeBlocked")
       ELSE IF run[w].reuse THEN Go(w, "claim") ELSE Go(w, "store")
    /\ UNCHANGED <<queue, row, lock, copies, faults, world>>

\* storeAIResponse under the conversation's row lock.  The unique index on
\* the idempotency key refuses a second row and the job fails.
Store(w, s, next) ==
    LET t == run[w].turn
    IN /\ IF row[t].state = "NONE"
          THEN /\ row' = [row EXCEPT ![t] =
                            Candidate(IF t \in obsolete THEN "DISMISSED"
                                      ELSE s)]
               /\ Go(w, next)
          ELSE End(w, "retry") /\ UNCHANGED row
       /\ UNCHANGED <<queue, lock, copies, faults, world>>

StoreCandidate(w) == At(w, "store") /\ Store(w, "SEND_PENDING", "claim")
StoreHeld(w) == At(w, "storeHeld") /\ Store(w, "HELD", "hold")
StoreBlocked(w) == At(w, "storeBlocked") /\ Store(w, "SEND_PENDING", "hold")

\* finalizeAiMessage for a reply that is not sent.
Hold(w) ==
    LET t == run[w].turn
    IN /\ At(w, "hold")
       /\ row' = [row EXCEPT ![t] = Held(t)]
       /\ IF run[w].escalate THEN Go(w, "handoff") ELSE End(w, "completed")
       /\ UNCHANGED <<queue, lock, copies, faults, world>>

\* requireHuman: the conversation becomes a person's, under the delivery
\* lock; a busy lock is an error that is retried.
Handoff(w) ==
    LET t == run[w].turn
    IN /\ At(w, "handoff")
       /\ \/ /\ conv.open
             /\ lock = Nobody
             /\ t \notin obsolete
             /\ conv' = [conv EXCEPT !.hitl = TRUE]
             /\ superseded' = superseded \cup InFlight
             /\ End(w, "completed")
          \/ /\ ~conv.open \/ (lock = Nobody /\ t \in obsolete)
             /\ End(w, "completed")
             /\ UNCHANGED <<conv, superseded>>
          \/ /\ conv.open
             /\ lock # Nobody
             /\ End(w, "retry")
             /\ UNCHANGED <<conv, superseded>>
       /\ UNCHANGED <<queue, row, obsolete, lock, merchant, copies, faults,
                      humans>>

\* claimAutomaticCandidate: all objections but the mode, then the row.
Claimable(t) ==
    /\ ~conv.hitl
    /\ conv.open
    /\ t \notin obsolete
    /\ ~conv.paused
    /\ ~conv.humanLast
    /\ ~conv.optedOut
    /\ Pending(row[t])
    /\ ~row[t].attempted
    /\ ~row[t].claimed

ClaimCandidate(w) ==
    LET t == run[w].turn
    IN /\ At(w, "claim")
       /\ IF Claimable(t)
          THEN /\ row' = [row EXCEPT ![t].claimed = TRUE, ![t].old = FALSE]
               /\ Go(w, "recheck")
          ELSE /\ Go(w, "refused")
               /\ UNCHANGED row
       /\ UNCHANGED <<queue, lock, copies, faults, world>>

\* The guard is asked why; for most reasons the row is held for a person.
HoldRefused(w) ==
    LET t == run[w].turn
        terminal == \/ conv.mode # "AUTO" \/ conv.hitl \/ ~conv.open
                    \/ conv.paused \/ (~conv.optedOut /\ conv.humanLast)
    IN /\ At(w, "refused")
       /\ IF terminal /\ ~Confirmed(row[t]) /\ ~row[t].attempted
                      /\ ~row[t].claimed
          THEN row' = [row EXCEPT ![t] = Held(t)]
          ELSE UNCHANGED row
       /\ End(w, "completed")
       /\ UNCHANGED <<queue, lock, copies, faults, world>>

\* The candidate is looked at once more, then the delivery lock is awaited
\* for ten seconds at most.
Recheck(w) ==
    /\ At(w, "recheck")
    /\ IF row[run[w].turn].state = "SEND_PENDING" THEN Go(w, "lock")
       ELSE End(w, "completed")
    /\ UNCHANGED <<queue, row, lock, copies, faults, world>>

AcquireLock(w) ==
    /\ At(w, "lock")
    /\ IF lock = Nobody
       THEN lock' = w /\ Go(w, "boundary")
       ELSE /\ run' = [run EXCEPT ![w].at = "release", ![w].how = "retry"]
            /\ UNCHANGED lock
    /\ UNCHANGED <<queue, row, copies, faults, world>>

\* claimProviderSendBoundary: one transaction that locks the conversation and
\* the customer, asks for every objection again and marks the row attempted.
Boundary(w) ==
    LET t == run[w].turn
        gone == conv.hitl \/ ~conv.open
        unwanted == \/ conv.mode # "AUTO" \/ conv.paused
                    \/ conv.humanLast \/ conv.optedOut
    IN /\ At(w, "boundary")
       /\ \/ /\ gone \/ (t \notin obsolete /\ unwanted)
             /\ Go(w, "hold")
             /\ UNCHANGED row
          \/ /\ ~gone
             /\ \/ t \in obsolete
                \/ /\ ~unwanted
                   /\ ~(Pending(row[t]) /\ row[t].claimed /\ ~row[t].attempted)
             /\ End(w, "completed")
             /\ UNCHANGED row
          \/ /\ ~gone /\ t \notin obsolete /\ ~unwanted
             /\ Pending(row[t]) /\ row[t].claimed /\ ~row[t].attempted
             /\ row' = [row EXCEPT ![t].attempted = TRUE]
             /\ Go(w, "revalidate")
       /\ UNCHANGED <<queue, lock, copies, faults, world>>

\* Product, knowledge and opening-hours evidence is read again.
Revalidate(w) ==
    /\ At(w, "revalidate")
    /\ \/ Go(w, "call") /\ UNCHANGED faults
       \/ Go(w, "withdraw") /\ UNCHANGED faults
       \/ /\ Fault("dependency")
          /\ run' = [run EXCEPT ![w].at = "release", ![w].how = "retry"]
    /\ UNCHANGED <<queue, row, lock, copies, world>>

\* releaseAutomaticCandidate, before a hold or before an error is thrown.
ReleaseCandidate(w) ==
    LET t == run[w].turn
    IN /\ \/ At(w, "withdraw") /\ Go(w, "hold")
          \/ At(w, "release") /\ Go(w, "finish")
       /\ row' = [row EXCEPT ![t] = Released(@)]
       /\ UNCHANGED <<queue, lock, copies, faults, world>>

\* sendMessage: the bodies go out one by one, each behind a rate limit slot.
Accepted(t) == \E p \in 1..Parts : copies[t][p] > 0

AcceptPart(w) ==
    copies' = [copies EXCEPT ![run[w].turn][run[w].part + 1] = @ + 1]

SendPart(w) ==
    /\ At(w, "call")
    /\ AcceptPart(w)
    /\ run' = [run EXCEPT ![w].part = @ + 1,
                          ![w].at = IF run[w].part + 1 = Parts THEN "record"
                                    ELSE "call"]
    /\ UNCHANGED <<queue, row, lock, faults, world>>

\* No slot for the next part, whatever has been accepted before it.
RateLimited(w) ==
    /\ At(w, "call")
    /\ Fault("rate")
    /\ run' = [run EXCEPT ![w].at = "release", ![w].how = "delayed"]
    /\ UNCHANGED <<queue, row, lock, copies, world>>

\* Mutant: a lost answer takes the candidate back for another attempt.
SendFailsReleases(w) ==
    /\ At(w, "call")
    /\ \/ /\ Fault("answer")
          /\ run' = [run EXCEPT ![w].at = "release", ![w].how = "retry"]
          /\ AcceptPart(w) \/ UNCHANGED copies
       \/ /\ Fault("auth")
          /\ run' = [run EXCEPT ![w].at = "fail", ![w].how = "dead"]
          /\ UNCHANGED copies
    /\ UNCHANGED <<queue, row, lock, world>>

\* Mutant: a failed call is retried and not recorded.
SendFailsUnrecorded(w) ==
    /\ At(w, "call")
    /\ \/ /\ Fault("answer")
          /\ End(w, "retry")
          /\ AcceptPart(w) \/ UNCHANGED copies
       \/ /\ Fault("auth")
          /\ End(w, "dead")
          /\ UNCHANGED copies
    /\ UNCHANGED <<queue, row, lock, world>>

\* Any other failure of the call, the part accepted or not; a refused token
\* is one that no retry repairs.
SendFails(w) ==
    /\ At(w, "call")
    /\ \/ /\ Fault("answer")
          /\ run' = [run EXCEPT ![w].at = "fail", ![w].how = "retry"]
          /\ AcceptPart(w) \/ UNCHANGED copies
       \/ /\ Fault("auth")
          /\ run' = [run EXCEPT ![w].at = "fail", ![w].how = "dead"]
          /\ UNCHANGED copies
    /\ UNCHANGED <<queue, row, lock, world>>

\* finalizeAiMessage with the outcome.  An echo may have confirmed the row
\* already; a row that is not pending any more is a lifecycle conflict, which
\* fails the job.
RecordSent(w) ==
    LET t == run[w].turn
    IN /\ At(w, "record")
       /\ \/ /\ Outdated(t) /\ ~Confirmed(row[t])
             /\ row' = [row EXCEPT ![t].state = "DISMISSED"]
             /\ End(w, "completed")
          \/ /\ Confirmed(row[t])
             /\ End(w, "completed")
             /\ UNCHANGED row
          \/ /\ ~Outdated(t) /\ Pending(row[t])
             /\ row' = [row EXCEPT ![t].state = "SENT", ![t].mid = TRUE]
             /\ End(w, "completed")
          \/ /\ ~Outdated(t) /\ ~Pending(row[t]) /\ ~Confirmed(row[t])
             /\ End(w, "retry")
             /\ UNCHANGED row
       /\ UNCHANGED <<queue, lock, copies, faults, world>>

\* Mutant: when the outcome cannot be written the candidate is taken back.
RecordFailsReleases(w) ==
    /\ At(w, "record")
    /\ Fault("dependency")
    /\ run' = [run EXCEPT ![w].at = "release", ![w].how = "retry"]
    /\ UNCHANGED <<queue, row, lock, copies, world>>

RecordFails(w) ==
    /\ At(w, "record")
    /\ Fault("dependency")
    /\ End(w, "retry")
    /\ UNCHANGED <<queue, row, lock, copies, world>>

\* Mutant: a row that an echo has confirmed is written over.
RecordFailureBlind(w) ==
    LET t == run[w].turn
    IN /\ At(w, "fail")
       /\ row' = [row EXCEPT ![t].state = "FAILED", ![t].attempted = TRUE,
                             ![t].mid = run[w].part > 0]
       /\ Go(w, "finish")
       /\ UNCHANGED <<queue, lock, copies, faults, world>>

RecordFailure(w) ==
    LET t == run[w].turn
    IN /\ At(w, "fail")
       /\ \/ /\ Outdated(t) /\ ~Confirmed(row[t])
             /\ row' = [row EXCEPT ![t].state = "DISMISSED"]
             /\ Go(w, "finish")
          \/ /\ Confirmed(row[t])
             /\ End(w, "completed")
             /\ UNCHANGED row
          \/ /\ ~Outdated(t) /\ Pending(row[t])
             /\ row' = [row EXCEPT ![t].state = "FAILED",
                                   ![t].attempted = TRUE,
                                   ![t].mid = run[w].part > 0]
             /\ Go(w, "finish")
          \/ /\ ~Outdated(t) /\ ~Pending(row[t]) /\ ~Confirmed(row[t])
             /\ End(w, "retry")
             /\ UNCHANGED row
       /\ UNCHANGED <<queue, lock, copies, faults, world>>

\* Mutant: a job that waits for a rate limit is not moved to the delayed set.
SettledNotDelayed(j, ending) ==
    LET spent == ending = "retry" /\ j.made + 1 >= MaxAttempts
    IN [j EXCEPT
          !.state = IF ending = "completed" THEN "completed"
                    ELSE IF ending = "dead" \/ spent THEN "failed"
                    ELSE IF ending = "delayed" THEN "active"
                    ELSE "waiting",
          !.owner = Nobody,
          !.made = IF ending = "retry" THEN j.made + 1 ELSE j.made]

\* The end of processMessageJob: an error that is retried removes the dedup
\* key, the delivery lock is given back by its holder, and BullMQ settles the
\* job if it still is this execution's.
Settled(j, ending) ==
    LET spent == ending = "retry" /\ j.made + 1 >= MaxAttempts
    IN [j EXCEPT
          !.state = IF ending = "completed" THEN "completed"
                    ELSE IF ending = "dead" \/ spent THEN "failed"
                    ELSE "waiting",
          !.owner = Nobody,
          !.made = IF ending = "retry" THEN j.made + 1 ELSE j.made]

\* Mutant: the delivery lock is deleted whoever holds it.
FinishDeletesLock(w) ==
    LET t == run[w].turn
    IN /\ At(w, "finish")
       /\ dedup' = IF run[w].how \in {"retry", "delayed"} THEN dedup \ {t}
                   ELSE dedup
       /\ lock' = Nobody
       /\ job' = [job EXCEPT ![t] = IF @.owner = w THEN Settled(@, run[w].how)
                                    ELSE @]
       /\ run' = [run EXCEPT ![w] = Idle]
       /\ UNCHANGED <<started, row, copies, faults, world>>

Finish(w) ==
    LET t == run[w].turn
    IN /\ At(w, "finish")
       /\ dedup' = IF run[w].how \in {"retry", "delayed"} THEN dedup \ {t}
                   ELSE dedup
       /\ lock' = IF lock = w THEN Nobody ELSE lock
       /\ job' = [job EXCEPT ![t] = IF @.owner = w THEN Settled(@, run[w].how)
                                    ELSE @]
       /\ run' = [run EXCEPT ![w] = Idle]
       /\ UNCHANGED <<started, row, copies, faults, world>>

(***************************************************************************)
(* Disturbances.                                                           *)
(***************************************************************************)

\* Mutant: one stall too many is given back.
GivenBackOnceMore(j) ==
    [j EXCEPT !.owner = Nobody,
              !.stalls = IF j.stalls <= MaxStalls THEN j.stalls + 1
                         ELSE j.stalls,
              !.state = IF j.stalls <= MaxStalls THEN "waiting" ELSE "failed"]

\* BullMQ notices that nobody renews the job's lock and gives the job back,
\* or fails it when that happened too often.
GivenBack(j) ==
    [j EXCEPT !.owner = Nobody,
              !.stalls = IF j.stalls < MaxStalls THEN j.stalls + 1
                         ELSE j.stalls,
              !.state = IF j.stalls < MaxStalls THEN "waiting" ELSE "failed"]

\* A worker dies.
Crash(w) ==
    LET t == run[w].turn
    IN /\ ~At(w, "idle")
       /\ Fault("crash")
       /\ run' = [run EXCEPT ![w] = Idle]
       /\ job' = [job EXCEPT ![t] = IF @.owner = w THEN GivenBack(@) ELSE @]
       /\ lock' = IF lock = w THEN Lost ELSE lock
       /\ UNCHANGED <<dedup, started, row, copies, world>>

\* A worker is too slow to renew the job's lock, and goes on.
Stall(w) ==
    LET t == run[w].turn
    IN /\ ~At(w, "idle")
       /\ job[t].owner = w
       /\ Fault("stall")
       /\ job' = [job EXCEPT ![t] = GivenBack(@)]
       /\ UNCHANGED <<run, dedup, started, row, lock, copies, world>>

\* The delivery lock lives five minutes.
LockExpires ==
    /\ lock # Nobody
    /\ IF lock = Lost THEN UNCHANGED faults ELSE Fault("lease")
    /\ lock' = Nobody
    /\ UNCHANGED <<queue, run, row, copies, world>>

\* Ten minutes pass after a claim: sixty times the wait for a delivery lock
\* and twice its life, so the execution that made the claim is past both.
ClaimAges(t) ==
    /\ row[t].claimed /\ ~row[t].old
    /\ \A w \in Workers :
          run[w].turn = t => lock # w /\ ~At(w, "recheck") /\ ~At(w, "lock")
    /\ row' = [row EXCEPT ![t].old = TRUE]
    /\ UNCHANGED <<queue, run, lock, copies, faults, world>>

\* Half an hour passes after a pause: longer than any execution or request.
PauseExpires ==
    /\ conv.paused
    /\ merchant = "idle"
    /\ \A w \in Workers : At(w, "idle")
    /\ conv' = [conv EXCEPT !.paused = FALSE]
    /\ UNCHANGED <<queue, run, row, obsolete, lock, merchant, copies,
                   superseded, faults, humans>>

\* Meta echoes a message it accepted; the row that was being sent is
\* confirmed by it.
Echo(t) ==
    /\ Accepted(t)
    /\ row[t].state \in {"SEND_PENDING", "FAILED"}
    /\ row[t].attempted
    /\ ~row[t].mid
    /\ row' = [row EXCEPT ![t].state = "SENT", ![t].mid = TRUE]
    /\ UNCHANGED <<queue, run, lock, copies, faults, world>>

(***************************************************************************)
(* People.                                                                 *)
(***************************************************************************)

Person(kind) ==
    /\ kind \in HumanKinds
    /\ humans < MaxHumans
    /\ humans' = humans + 1

\* The customer writes: the turn's job is queued and a closed conversation
\* is opened again.
CustomerMessage(t) ==
    /\ job[t].state = "absent"
    /\ job' = [job EXCEPT ![t].state = "waiting"]
    /\ conv' = [conv EXCEPT !.humanLast = FALSE,
                            !.open = TRUE,
                            !.hitl = conv.open /\ conv.hitl,
                            !.paused = conv.open /\ conv.paused]
    /\ UNCHANGED <<run, dedup, started, row, obsolete, lock, merchant, copies,
                   superseded, faults, humans>>

\* The merchant's own message: under the delivery lock it is stored, the
\* candidates are held, the AI is paused, and only then is it sent.  The hold
\* and the pause are best effort.
ReplyBegins ==
    /\ merchant = "idle"
    /\ lock = Nobody
    /\ Person("reply")
    /\ lock' = Merchant
    /\ merchant' = "store"
    /\ UNCHANGED <<queue, run, row, conv, obsolete, copies, superseded,
                   faults>>

ReplyStored ==
    /\ merchant = "store"
    /\ merchant' = "hold"
    /\ conv' = [conv EXCEPT !.humanLast = TRUE]
    /\ superseded' = superseded \cup InFlight
    /\ UNCHANGED <<queue, run, row, obsolete, lock, copies, faults, humans>>

ReplyHolds ==
    /\ merchant = "hold"
    /\ merchant' = "pause"
    /\ \/ row' = HoldPending /\ UNCHANGED faults
       \/ Fault("dependency") /\ UNCHANGED row
    /\ UNCHANGED <<queue, run, conv, obsolete, lock, copies, superseded,
                   humans>>

ReplyPauses ==
    /\ merchant = "pause"
    /\ merchant' = "send"
    /\ \/ conv' = [conv EXCEPT !.paused = TRUE] /\ UNCHANGED faults
       \/ Fault("redis") /\ UNCHANGED conv
    /\ UNCHANGED <<queue, run, row, obsolete, lock, copies, superseded,
                   humans>>

ReplyDelivered ==
    /\ merchant = "send"
    /\ merchant' = "idle"
    /\ lock' = IF lock = Merchant THEN Nobody ELSE lock
    /\ UNCHANGED <<queue, run, row, conv, obsolete, copies, superseded, faults,
                   humans>>

\* updateConversation takes the delivery lock for each of the next three and
\* is refused while it is held.
CancelAll(s, S) ==
    [t \in Turns |-> IF t \in S /\ Cancellable(row[t])
                     THEN [row[t] EXCEPT !.state = s] ELSE row[t]]

TakeOver ==
    /\ lock = Nobody
    /\ Person("takeover")
    /\ conv' = [conv EXCEPT !.hitl = TRUE]
    /\ row' = CancelAll("HELD", Turns)
    /\ superseded' = superseded \cup InFlight
    /\ UNCHANGED <<queue, run, obsolete, lock, merchant, copies, faults>>

\* Mutant: only turns that have stored a candidate are made obsolete.
ResumeByCandidate ==
    LET moves == conv.hitl \/ ~conv.bounded
    IN /\ lock = Nobody
       /\ Person("resume")
       /\ obsolete' = IF moves THEN {t \in started : row[t].state # "NONE"}
                      ELSE obsolete
       /\ conv' = [conv EXCEPT !.hitl = FALSE, !.paused = FALSE,
                               !.bounded = TRUE]
       /\ row' = CancelAll("DISMISSED", obsolete')
       /\ superseded' = IF conv.hitl THEN superseded \cup InFlight
                        ELSE superseded
       /\ UNCHANGED <<queue, run, lock, merchant, copies, faults>>

\* The boundary moves only if a person had the conversation or there was no
\* boundary yet.
Resume ==
    LET moves == conv.hitl \/ ~conv.bounded
    IN /\ lock = Nobody
       /\ Person("resume")
       /\ obsolete' = IF moves THEN started ELSE obsolete
       /\ conv' = [conv EXCEPT !.hitl = FALSE, !.paused = FALSE,
                               !.bounded = TRUE]
       /\ row' = CancelAll("DISMISSED", obsolete')
       /\ superseded' = IF conv.hitl THEN superseded \cup InFlight
                        ELSE superseded
       /\ UNCHANGED <<queue, run, lock, merchant, copies, faults>>

Close ==
    /\ lock = Nobody
    /\ Person("close")
    /\ obsolete' = started
    /\ conv' = [conv EXCEPT !.open = FALSE, !.hitl = FALSE,
                            !.paused = FALSE, !.bounded = TRUE]
    /\ row' = CancelAll("HELD", Turns)
    /\ superseded' = superseded \cup InFlight
    /\ UNCHANGED <<queue, run, lock, merchant, copies, faults>>

\* bulkUpdateStatus to archived writes the status and nothing else.
Archive ==
    /\ Person("archive")
    /\ conv.open
    /\ conv' = [conv EXCEPT !.open = FALSE]
    /\ UNCHANGED <<queue, run, row, obsolete, lock, merchant, copies,
                   superseded, faults>>

\* The pause switch of the mobile inbox.
TogglePause ==
    /\ Person("pause")
    /\ conv' = [conv EXCEPT !.paused = ~conv.paused]
    /\ row' = IF conv.paused THEN row ELSE HoldPending
    /\ UNCHANGED <<queue, run, obsolete, lock, merchant, copies, superseded,
                   faults>>

ChangeMode ==
    /\ Person("mode")
    /\ \E m \in Modes \ {conv.mode} : conv' = [conv EXCEPT !.mode = m]
    /\ UNCHANGED <<queue, run, row, obsolete, lock, merchant, copies,
                   superseded, faults>>

\* STOP: the opt-out is written with the customer's message.
OptOut ==
    /\ Person("optout")
    /\ ~conv.optedOut
    /\ conv' = [conv EXCEPT !.optedOut = TRUE, !.humanLast = FALSE,
                            !.open = TRUE,
                            !.hitl = conv.open /\ conv.hitl,
                            !.paused = conv.open /\ conv.paused]
    /\ superseded' = superseded \cup InFlight
    /\ UNCHANGED <<queue, run, row, obsolete, lock, merchant, copies, faults>>

(***************************************************************************)
(* The specification.                                                      *)
(***************************************************************************)

WorkerStep(w) ==
    \/ ClaimDedupKey(w) \/ StartTurn(w) \/ StartTurnFails(w) \/ Guard(w)
    \/ Answer(w) \/ Withhold(w) \/ Suppress(w) \/ GenerationFails(w)
    \/ SendGuard(w) \/ StoreCandidate(w) \/ StoreHeld(w) \/ StoreBlocked(w)
    \/ Hold(w) \/ Handoff(w) \/ ClaimCandidate(w) \/ HoldRefused(w)
    \/ Recheck(w) \/ AcquireLock(w) \/ Boundary(w) \/ Revalidate(w)
    \/ ReleaseCandidate(w) \/ SendPart(w) \/ RateLimited(w) \/ SendFails(w)
    \/ RecordSent(w) \/ RecordFails(w) \/ RecordFailure(w) \/ Finish(w)

MerchantStep == ReplyStored \/ ReplyHolds \/ ReplyPauses \/ ReplyDelivered

PersonStep ==
    \/ ReplyBegins \/ TakeOver \/ Resume \/ Close \/ Archive
    \/ TogglePause \/ ChangeMode \/ OptOut

Next ==
    \/ \E w \in Workers, t \in Turns : Take(w, t)
    \/ \E w \in Workers : WorkerStep(w) \/ Crash(w) \/ Stall(w)
    \/ \E t \in Turns : ClaimAges(t) \/ Echo(t) \/ CustomerMessage(t)
    \/ LockExpires \/ PauseExpires \/ MerchantStep \/ PersonStep

Spec == Init /\ [][Next]_vars

\* The worker process goes on with what it has taken and takes what waits;
\* a lock nobody holds runs out; a merchant's request runs to its end.
\* Nothing is assumed of people, of Meta's echoes or of disturbances.
Fairness ==
    /\ \A w \in Workers : WF_vars(WorkerStep(w))
    /\ \A t \in Turns : WF_vars(\E w \in Workers : Take(w, t))
    /\ WF_vars(lock = Lost /\ LockExpires)
    /\ WF_vars(MerchantStep)

FairSpec == Spec /\ Fairness

(***************************************************************************)
(* Properties.                                                             *)
(***************************************************************************)

\* A turn that was in flight when a person stepped in (or the customer opted
\* out) never crosses the send boundary afterwards.
NoSendBehindPeople ==
    [][\A t \in superseded :
          ~(~row[t].attempted /\ row'[t].attempted
            /\ row'[t].state = "SEND_PENDING")]_vars

\* The delivery lock serialises what the customer sees: never two writers in
\* a provider call of one conversation.
OneSenderAtATime ==
    /\ \A v, w \in Workers : At(v, "call") /\ At(w, "call") => v = w
    /\ merchant = "send" => \A w \in Workers : ~At(w, "call")

\* The customer gets each part of a reply at most once, through retries,
\* crashes, rate limits and lost answers.
SingleReply == \A t \in Turns, p \in 1..Parts : copies[t][p] <= 1

\* What Meta accepted is visible as an attempt on the row, and a row is shown
\* as sent only if Meta accepted something.
RowTellsTheTruth ==
    \A t \in Turns :
        /\ Accepted(t) => row[t].attempted
        /\ row[t].state = "SENT" => Accepted(t)

\* A reply that was put aside for a person, or dismissed, is never put back
\* on its way by the automation; a confirmed one stays confirmed.
SettledRowsStay ==
    [][\A t \in Turns :
          /\ row[t].state \in {"HELD", "DISMISSED"}
                => row'[t].state \in {"HELD", "DISMISSED"}
          /\ row[t].state = "SENT" => row'[t].state = "SENT"]_vars

\* Every queued turn is worked off: completed or dead-lettered.
JobsSettle ==
    \A t \in Turns :
        job[t].state = "waiting" ~> job[t].state \in {"completed", "failed"}

\* A reply that crossed the send boundary gets an outcome on its row or is
\* taken back, unless its worker was lost: then only an echo settles the row.
OutcomeShown ==
    \A t \in Turns :
        row[t].attempted ~> \/ ~row[t].attempted
                            \/ row[t].state \in {"SENT", "FAILED"}
                            \/ job[t].stalls > 0

\* A run that ends as a duplicate leaves a turn that has its outcome.
DuplicateWasAnswered ==
    [][\A w \in Workers :
          At(w, "dedup") /\ run'[w].at = "finish"
            => row[run[w].turn].state \notin {"NONE", "SEND_PENDING"}]_vars

(***************************************************************************)
(* What the reply promises about each turn, whoever disturbs it.           *)
(***************************************************************************)

Promise == INSTANCE OneReply WITH
    barred <- superseded,
    committed <- {t \in Turns : row[t].attempted},
    delivered <- [t \in Turns |-> copies[t][1]],
    shown <- {t \in Turns : row[t].state = "SENT"}

\* The first body of a reply keeps the promise of OneReply.
KeepsPromise == Promise!Spec
====
