--------------------------- MODULE InboundReceipts ---------------------------
(***************************************************************************)
(* Durable acceptance of inbound Messenger webhooks.                       *)
(*                                                                         *)
(* A webhook delivery records a receipt row before any business work       *)
(* (meta-webhook-receipt.service.js), ingests the event and hands it to a  *)
(* BullMQ burst job (meta-webhook-events.handler.js, burst-coalescer.js);  *)
(* the message worker settles the receipts of a finished job               *)
(* (message-worker.js); a reconciler replays whatever is due               *)
(* (webhook-receipt-reconciler.job.js).  Live deliveries, the reconciler   *)
(* and the worker share the rows through conditional updates only.         *)
(*                                                                         *)
(* All events belong to one Page and one conversation.  Each event has one *)
(* receipt row, and a message event names one deterministic job id, so a   *)
(* job is named by its event.                                              *)
(***************************************************************************)
EXTENDS Integers, FiniteSets

CONSTANTS
    Events,             \* provider events; also the receipts and the burst jobs
    Kind,               \* what classifyEvent and the STOP test say of each event
    Handlers,           \* concurrent live webhook deliveries
    Reconcilers,        \* concurrent runs of the receipt reconciler
    Null,               \* no owner, no job
    Expired,            \* a processing token that no row holds any more
    AnyJob,             \* an undefined replacedQueueJobId: the rebind is unguarded
    MaxStoreRetries,    \* MAX_STORE_RETRIES
    MaxIdentityRetries, \* MAX_IDENTITY_RETRIES
    MaxAttempts,        \* BullMQ attempts of a job
    MaxDeliveries,      \* bound: deliveries of one event
    FaultKinds,         \* the disturbances that may happen
    MaxFaults           \* bound: disturbances in a behaviour

Procs == Handlers \cup Reconcilers

\* A failed database call, a failed or emptied Redis, a failing job, a dead
\* process, a week gone by, a disconnected Page.
Disturbances == {"database", "redis", "job", "crash", "week", "channel"}

Kinds == {"message", "stop", "optin", "echo", "other"}

\* Deliveries and reconciler runs are different processes.
ASSUME ProcsAssumption ==
    /\ Handlers \cap Reconcilers = {}
    /\ Null \notin Procs
    /\ Expired \notin Procs \cup {Null}

\* Every event has a kind, and the two markers are not events.
ASSUME EventsAssumption ==
    /\ Kind \in [Events -> Kinds]
    /\ Null \notin Events
    /\ AnyJob \notin Events \cup {Null}

\* The ladders and bounds are numbers; a job has at least one attempt.
ASSUME BoundsAssumption ==
    /\ MaxStoreRetries \in Nat
    /\ MaxIdentityRetries \in Nat
    /\ MaxAttempts \in Nat \ {0}
    /\ MaxDeliveries \in Nat
    /\ MaxFaults \in Nat
    /\ FaultKinds \subseteq Disturbances

VARIABLES
    receipt,    \* the receipt row of each event
    pc,         \* where each process stands in its handler
    mem,        \* the receipt instance each process holds in memory
    job,        \* the BullMQ burst job of each message event
    pending,    \* the Redis key burst:pending:<conversation>
    settles,    \* receipts a finished job's listener has still to settle
    connected,  \* the Page has a CONNECTED channel
    stored,     \* message events whose message row exists
    deliveries, \* deliveries started so far, per event
    faults,     \* disturbances so far
    served,     \* history: events whose business effect has happened
    adopted     \* history: receipts rebound to a job that started without them

vars == <<receipt, pc, mem, job, pending, settles, connected, stored,
          deliveries, faults, served, adopted>>

-----------------------------------------------------------------------------
(* Receipt rows.  "ABSENT" stands for no row. *)

Retryable   == {"RETRY_PENDING", "IDENTITY_NOT_RESOLVED"}
Recoverable == Retryable \cup {"QUEUED"}
Terminal    == {"PROCESSED", "SKIPPED", "DEAD_LETTERED"}
Open        == Recoverable \cup {"RECEIVED", "PROCESSING"}
Statuses    == {"ABSENT"} \cup Open \cup Terminal

Receipt == [status  : Statuses,
            owner   : Procs \cup {Null},      \* processing_token
            job     : Events \cup {Null},     \* queue_job_id
            payload : BOOLEAN,                \* payload_encrypted is kept
            retries : Nat,                    \* retry_count
            bound   : BOOLEAN,                \* shop_id and meta_channel_id set
            due     : BOOLEAN,                \* past next_retry_at / the stale age
            old     : BOOLEAN]                \* created more than 7 days ago

NoReceipt == [status |-> "ABSENT", owner |-> Null, job |-> Null,
              payload |-> FALSE, retries |-> 0, bound |-> FALSE,
              due |-> FALSE, old |-> FALSE]

\* The events whose body is kept for replay.
Replayable(e) == Kind[e] # "other"

\* recordReceipt: a new row, with a replay body when the event is replayable.
recordReceipt(e) ==
    [NoReceipt EXCEPT !.status = "RECEIVED", !.payload = Replayable(e)]

markSkipped(r) ==
    [r EXCEPT !.status = "SKIPPED", !.payload = FALSE, !.job = Null,
              !.due = FALSE]

markProcessed(r) ==
    [r EXCEPT !.status = "PROCESSED", !.payload = FALSE, !.owner = Null,
              !.job = Null, !.bound = TRUE, !.due = FALSE]

markQueued(r, j) ==
    [r EXCEPT !.status = "QUEUED", !.owner = Null, !.job = j, !.bound = TRUE,
              !.due = FALSE]

\* Mutant: the token stays on a receipt put back in the queue.
deferQueuedKeepsToken(r) == [r EXCEPT !.status = "QUEUED", !.due = FALSE]

deferQueued(r) ==
    [r EXCEPT !.status = "QUEUED", !.owner = Null, !.due = FALSE]

markQueueFailure(r) ==
    [r EXCEPT !.status = "QUEUED", !.owner = Null, !.job = Null, !.due = FALSE]

\* Mutant: giving up also discards the replay body.
deadLetterDropsBody(r) ==
    [r EXCEPT !.status = "DEAD_LETTERED", !.payload = FALSE, !.owner = Null,
              !.job = Null, !.due = FALSE]

deadLetter(r) ==
    [r EXCEPT !.status = "DEAD_LETTERED", !.owner = Null, !.job = Null,
              !.due = FALSE]

\* Binding touches the row: a claim is stale by its last update, a RECEIVED row
\* by the time it was received.
bindReceiptTenant(r) ==
    [r EXCEPT !.bound = TRUE, !.due = r.due /\ r.status = "RECEIVED"]

\* The retry counter comes from the instance in memory, not from the row.
markIdentityNotResolved(r, retries) ==
    IF retries >= MaxIdentityRetries
    THEN deadLetter(r)
    ELSE [r EXCEPT !.status = "IDENTITY_NOT_RESOLVED", !.retries = retries,
                   !.owner = Null, !.job = Null, !.due = FALSE]

markStoreFailure(r, retries) ==
    IF retries > MaxStoreRetries
    THEN deadLetter(r)
    ELSE [r EXCEPT !.status = "RETRY_PENDING", !.retries = retries,
                   !.owner = Null, !.job = Null, !.due = FALSE]

claim(r, p) ==
    [r EXCEPT !.status = "PROCESSING", !.owner = p, !.due = FALSE]

-----------------------------------------------------------------------------
(* Burst jobs. *)

Live     == {"waiting", "active"}
Resident == Live \cup {"completed"}

Job == [state    : {"none", "failed"} \cup Resident,
        ids      : SUBSET Events,                   \* data.receiptIds
        replaced : Events \cup {Null, AnyJob},      \* data.replacedQueueJobId
        held     : SUBSET Events,  \* data.receiptIds as the running worker read it
        turn     : SUBSET Events,  \* messages the run loaded
        attempts : 0 .. MaxAttempts]

NoJob == [state |-> "none", ids |-> {}, replaced |-> Null, held |-> {},
          turn |-> {}, attempts |-> 0]

NewJob(ids, replaced) ==
    [NoJob EXCEPT !.state = "waiting", !.ids = ids, !.replaced = replaced]

\* removeQueuedJob leaves active and completed jobs alone.
removeQueuedJob(jobs, j) ==
    IF j # Null /\ jobs[j].state \in {"waiting", "failed"}
    THEN [jobs EXCEPT ![j] = NoJob]
    ELSE jobs

-----------------------------------------------------------------------------
(* Processes.  mem[p] is the receipt instance p read, plus, once p has     *)
(* scheduled a job, that job's data as scheduleBurstFlush returned it.     *)

Snapshot == [e        : Events \cup {Null},
             status   : Statuses,
             owner    : Procs \cup {Null, Expired},
             job      : Events \cup {Null},
             retries  : Nat,
             bound    : BOOLEAN,
             prev     : Events \cup {Null},
             ids      : SUBSET Events,
             replaced : Events \cup {Null, AnyJob}]

NoSnapshot == [e |-> Null, status |-> "ABSENT", owner |-> Null, job |-> Null,
               retries |-> 0, bound |-> FALSE, prev |-> Null, ids |-> {},
               replaced |-> Null]

SnapshotOf(e, r) ==
    [NoSnapshot EXCEPT !.e = e, !.status = r.status, !.owner = r.owner,
                       !.job = r.job, !.retries = r.retries, !.bound = r.bound]


LiveSteps  == {"resolve", "resolveBound", "claim"}
RunnerSteps == {"claimDue", "inspect", "defer", "confirm", "replay"}
OwnedSteps == {"inspect", "defer", "confirm", "replay", "ingest",
               "dispatch", "enqueue", "markQueued", "cancel", "settle"}
Steps == {"idle", "rebind"} \cup LiveSteps \cup RunnerSteps \cup OwnedSteps

TypeOK ==
    /\ receipt \in [Events -> Receipt]
    /\ pc \in [Procs -> Steps]
    /\ mem \in [Procs -> Snapshot]
    /\ \A p \in Procs : pc[p] # "idle" => mem[p].e \in Events
    /\ job \in [Events -> Job]
    /\ pending \in Events \cup {Null}
    /\ settles \subseteq Events \X Events \X {"completed", "failed"}
    /\ connected \in BOOLEAN
    /\ stored \subseteq Events
    /\ deliveries \in [Events -> 0 .. MaxDeliveries]
    /\ faults \in 0 .. MaxFaults
    /\ served \subseteq Events
    /\ adopted \subseteq Events

Init ==
    /\ receipt = [e \in Events |-> NoReceipt]
    /\ pc = [p \in Procs |-> "idle"]
    /\ mem = [p \in Procs |-> NoSnapshot]
    /\ job = [e \in Events |-> NoJob]
    /\ pending = Null
    /\ settles = {}
    /\ connected \in BOOLEAN
    /\ stored = {}
    /\ deliveries = [e \in Events |-> 0]
    /\ faults = 0
    /\ served = {}
    /\ adopted = {}

-----------------------------------------------------------------------------
(* Helpers. *)

Row(p) == receipt[mem[p].e]

\* safeUpdate writes only if status and token still are those in memory; a
\* lost fence is reported as success to the caller.
Fenced(p) == Row(p).status = mem[p].status /\ Row(p).owner = mem[p].owner

\* Mutant: the update is not conditional.
safeUpdateUnfenced(p, row) == receipt' = [receipt EXCEPT ![mem[p].e] = row]

safeUpdate(p, row) ==
    receipt' = IF Fenced(p) THEN [receipt EXCEPT ![mem[p].e] = row] ELSE receipt

Goto(p, step) ==
    /\ pc' = [pc EXCEPT ![p] = step]
    /\ UNCHANGED mem

\* A successful claim by p.  Tokens are random: p's new token differs from any
\* token an instance of the row was read with, even if p held that one too.
Claimed(p, step, j) ==
    LET e == mem[p].e IN
    /\ receipt' = [receipt EXCEPT ![e] = claim(@, p)]
    /\ pc' = [pc EXCEPT ![p] = step]
    /\ mem' = [q \in Procs |->
         IF q = p
         THEN [mem[p] EXCEPT !.status = "PROCESSING", !.owner = p,
                             !.bound = FALSE, !.job = j]
         ELSE IF mem[q].e = e /\ mem[q].owner = p
              THEN [mem[q] EXCEPT !.owner = Expired]
              ELSE mem[q]]

Done(p) ==
    /\ pc' = [pc EXCEPT ![p] = "idle"]
    /\ mem' = [mem EXCEPT ![p] = NoSnapshot]

Fault(kind) ==
    /\ kind \in FaultKinds
    /\ faults < MaxFaults
    /\ faults' = faults + 1

QueueUnchanged == UNCHANGED <<job, pending, settles>>
EnvUnchanged   == UNCHANGED <<connected, deliveries>>
HistUnchanged  == UNCHANGED <<served, adopted>>

\* The failure ends of processMessagingEvent.
StoreFailure(p) ==
    /\ safeUpdate(p, markStoreFailure(Row(p), mem[p].retries + 1))
    /\ Done(p)

QueueFailure(p) ==
    /\ safeUpdate(p, markQueueFailure(Row(p)))
    /\ Done(p)

IdentityNotResolved(p, increment) ==
    /\ safeUpdate(p, markIdentityNotResolved(Row(p), mem[p].retries + increment))
    /\ Done(p)

-----------------------------------------------------------------------------
(* Live deliveries: handlePageWebhook. *)

\* Phase 1: the receipt exists before anything else happens.  A duplicate
\* delivery gets the existing row.
Record(p, e) ==
    /\ pc[p] = "idle"
    /\ deliveries[e] < MaxDeliveries
    /\ deliveries' = [deliveries EXCEPT ![e] = @ + 1]
    /\ receipt' = IF receipt[e].status = "ABSENT"
                  THEN [receipt EXCEPT ![e] = recordReceipt(e)]
                  ELSE receipt
    /\ pc' = [pc EXCEPT ![p] = "resolve"]
    /\ mem' = [mem EXCEPT ![p] = SnapshotOf(e, receipt'[e])]
    /\ QueueUnchanged /\ HistUnchanged
    /\ UNCHANGED <<connected, stored, faults>>

\* Settled, or owned by someone else, when the delivery read it.
LeftAlone(p) ==
    \/ mem[p].status \in Terminal
    \/ mem[p].status = "PROCESSING" /\ mem[p].owner # Null

\* resolveConnectedChannel throws: the receipt is left replayable.
ResolutionFails(p) ==
    /\ pc[p] = "resolve"
    /\ Fault("database")
    /\ \/ LeftAlone(p) /\ Done(p) /\ UNCHANGED receipt
       \/ ~LeftAlone(p) /\ Replayable(mem[p].e) /\ StoreFailure(p)
       \/ /\ ~LeftAlone(p) /\ ~Replayable(mem[p].e)
          /\ safeUpdate(p, markSkipped(Row(p))) /\ Done(p)
    /\ QueueUnchanged /\ EnvUnchanged /\ HistUnchanged
    /\ UNCHANGED stored

\* No CONNECTED channel: the receipt is held, without advancing its ladder.
NotConnected(p) ==
    /\ pc[p] = "resolve"
    /\ ~connected
    /\ \/ LeftAlone(p) /\ Done(p) /\ UNCHANGED receipt
       \/ ~LeftAlone(p) /\ Replayable(mem[p].e) /\ IdentityNotResolved(p, 0)
       \/ /\ ~LeftAlone(p) /\ ~Replayable(mem[p].e)
          /\ safeUpdate(p, markSkipped(Row(p))) /\ Done(p)
    /\ QueueUnchanged /\ EnvUnchanged /\ HistUnchanged
    /\ UNCHANGED <<stored, faults>>

\* A connected channel: a settled duplicate stops here; an unbound receipt is
\* bound to the tenant; a bound one has its own channel resolved again.
Connected(p) ==
    LET e == mem[p].e IN
    /\ pc[p] = "resolve"
    /\ connected
    /\ \/ mem[p].status \in Terminal /\ Done(p) /\ UNCHANGED receipt
       \/ /\ mem[p].status \notin Terminal /\ mem[p].bound
          /\ Goto(p, "resolveBound")
          /\ UNCHANGED receipt
       \/ /\ mem[p].status \notin Terminal /\ ~mem[p].bound
          /\ receipt' =
               IF ~receipt[e].bound /\ receipt[e].status \in {"RECEIVED", "PROCESSING"}
               THEN [receipt EXCEPT ![e] = bindReceiptTenant(@)]
               ELSE receipt
          /\ Goto(p, "claim")
    /\ QueueUnchanged /\ EnvUnchanged /\ HistUnchanged
    /\ UNCHANGED <<stored, faults>>

\* resolveConnectedChannelForReceipt of a bound receipt.  Unlike the first
\* resolution, this one does not look whether the instance is owned.
ResolveBound(p) ==
    /\ pc[p] = "resolveBound"
    /\ \/ connected /\ Goto(p, "claim") /\ UNCHANGED receipt
       \/ ~connected /\ Replayable(mem[p].e) /\ IdentityNotResolved(p, 0)
       \/ /\ ~connected /\ ~Replayable(mem[p].e)
          /\ safeUpdate(p, markSkipped(Row(p))) /\ Done(p)
    /\ QueueUnchanged /\ EnvUnchanged /\ HistUnchanged
    /\ UNCHANGED <<stored, faults>>

\* Mutant: only the token is looked at.
ClaimableByToken(e) == receipt[e].owner = Null

\* claimProcessing looks at the row, not at the instance.
Claimable(e) == receipt[e].status \in {"RECEIVED"} \cup Retryable /\ receipt[e].owner = Null

ClaimProcessing(p) ==
    LET e == mem[p].e IN
    /\ pc[p] = "claim"
    /\ \/ /\ Claimable(e)
          /\ Claimed(p, "ingest", Null)
       \/ ~Claimable(e) /\ Done(p) /\ UNCHANGED receipt
    /\ QueueUnchanged /\ EnvUnchanged /\ HistUnchanged
    /\ UNCHANGED <<stored, faults>>

\* The claim's update throws: the catch marks a store failure with whatever
\* status and token the instance was read with.
ClaimFails(p) ==
    /\ pc[p] = "claim"
    /\ Fault("database")
    /\ StoreFailure(p)
    /\ QueueUnchanged /\ EnvUnchanged /\ HistUnchanged
    /\ UNCHANGED stored

-----------------------------------------------------------------------------
(* Ingestion: processMessagingEvent, run by a live delivery or a replay.   *)

\* An opt-in records consent; an echo attaches Meta's message id to our row
\* or matches nothing; an event of another kind has no effect.
ApplySideEvent(p) ==
    /\ pc[p] = "ingest"
    /\ Kind[mem[p].e] \in {"optin", "echo", "other"}
    /\ served' = served \cup {mem[p].e}
    /\ Goto(p, "settle")
    /\ QueueUnchanged /\ EnvUnchanged
    /\ UNCHANGED <<receipt, stored, faults, adopted>>

\* Consent is unavailable, or the echo arrived before the row it belongs to.
SideEventFails(p) ==
    /\ pc[p] = "ingest"
    /\ Kind[mem[p].e] \in {"optin", "echo"}
    /\ StoreFailure(p)
    /\ QueueUnchanged /\ EnvUnchanged /\ HistUnchanged
    /\ UNCHANGED <<stored, faults>>

\* Mutant: a STOP is settled without cancelling the pending burst.
StoreMessageAndForget(p) ==
    /\ pc[p] = "ingest"
    /\ Kind[mem[p].e] \in {"message", "stop"}
    /\ stored' = stored \cup {mem[p].e}
    /\ Goto(p, IF Kind[mem[p].e] = "stop" THEN "settle" ELSE "dispatch")
    /\ QueueUnchanged /\ EnvUnchanged /\ HistUnchanged
    /\ UNCHANGED <<receipt, faults>>

\* storeIncomingMessage keeps one row per provider message id;
\* processInboundConsent then records the opt-out of a STOP and suppresses the
\* dispatch.  Nobody else reads what lies between the two.
StoreMessage(p) ==
    /\ pc[p] = "ingest"
    /\ Kind[mem[p].e] \in {"message", "stop"}
    /\ stored' = stored \cup {mem[p].e}
    /\ Goto(p, IF Kind[mem[p].e] = "stop" THEN "cancel" ELSE "dispatch")
    /\ QueueUnchanged /\ EnvUnchanged /\ HistUnchanged
    /\ UNCHANGED <<receipt, faults>>

\* The store transaction throws, or the consent write after it.
StoreFails(p) ==
    /\ pc[p] = "ingest"
    /\ Kind[mem[p].e] \in {"message", "stop"}
    /\ Fault("database")
    /\ stored' \in {stored, stored \cup {mem[p].e}}
    /\ StoreFailure(p)
    /\ QueueUnchanged /\ EnvUnchanged /\ HistUnchanged

\* scheduleBurstFlush, first half: the pending job is read and its receipt ids
\* are merged into the payload.
ReadPending(p) ==
    LET prev == IF pending # Null /\ job[pending].state # "none" THEN pending ELSE Null
    IN
    /\ pc[p] = "dispatch"
    /\ pc' = [pc EXCEPT ![p] = "enqueue"]
    /\ mem' = [mem EXCEPT ![p].prev = prev,
                          ![p].ids = {mem[p].e} \cup
                                     (IF prev = Null THEN {} ELSE job[prev].ids),
                          ![p].replaced = prev]
    /\ QueueUnchanged /\ EnvUnchanged /\ HistUnchanged
    /\ UNCHANGED <<receipt, stored, faults>>

\* The pending key cannot be read: replacedQueueJobId stays undefined.
PendingUnreadable(p) ==
    /\ pc[p] = "dispatch"
    /\ Fault("redis")
    /\ pc' = [pc EXCEPT ![p] = "enqueue"]
    /\ mem' = [mem EXCEPT ![p].ids = {mem[p].e}, ![p].replaced = AnyJob]
    /\ QueueUnchanged /\ EnvUnchanged /\ HistUnchanged
    /\ UNCHANGED <<receipt, stored>>

\* scheduleBurstFlush, second half: reuse the message's own resident job, or
\* replace the pending one by a new job.
Enqueue(p) ==
    LET e    == mem[p].e
        data == IF job[e].state \in Resident
                THEN [job[e] EXCEPT !.ids = @ \cup mem[p].ids]
                ELSE NewJob(mem[p].ids, mem[p].replaced)
    IN
    /\ pc[p] = "enqueue"
    /\ \/ /\ job[e].state \in Resident
          /\ job' = [job EXCEPT ![e] = data]
          /\ UNCHANGED pending
       \/ /\ job[e].state \notin Resident
          /\ job' = [removeQueuedJob(job, mem[p].prev) EXCEPT ![e] = data]
          /\ pending' = e
    /\ pc' = [pc EXCEPT ![p] = "markQueued"]
    /\ mem' = [mem EXCEPT ![p].prev = Null, ![p].ids = data.ids,
                          ![p].replaced = data.replaced]
    /\ EnvUnchanged /\ HistUnchanged
    /\ UNCHANGED <<receipt, settles, stored, faults>>

\* The removal of the replaced job and the write of the pending key are best
\* effort: either may fail and the message's job is still added.
EnqueueDegraded(p) ==
    LET e    == mem[p].e
        data == NewJob(mem[p].ids, mem[p].replaced)
    IN
    /\ pc[p] = "enqueue"
    /\ job[e].state \notin Resident
    /\ Fault("redis")
    /\ \E jobs \in {job, removeQueuedJob(job, mem[p].prev)} :
          job' = [jobs EXCEPT ![e] = data]
    /\ pending' \in {pending, e}
    /\ pc' = [pc EXCEPT ![p] = "markQueued"]
    /\ mem' = [mem EXCEPT ![p].prev = Null, ![p].ids = data.ids,
                          ![p].replaced = data.replaced]
    /\ EnvUnchanged /\ HistUnchanged
    /\ UNCHANGED <<receipt, settles, stored>>

\* Redis or BullMQ fails in the middle, or the handoff cannot be recorded.  The
\* replaced job may be gone already, the new one may be there.
DispatchFails(p) ==
    LET e       == mem[p].e
        removed == [removeQueuedJob(job, mem[p].prev) EXCEPT ![e] = NoJob]
        added   == [removed EXCEPT ![e] = NewJob(mem[p].ids, mem[p].replaced)]
    IN
    /\ \/ pc[p] \in {"dispatch", "markQueued"} /\ UNCHANGED job
       \/ /\ pc[p] = "enqueue"
          /\ job' \in IF job[e].state \in Resident THEN {job} ELSE {job, removed, added}
       \/ pc[p] = "cancel" /\ job' \in {job, removeQueuedJob(job, pending)}
    /\ Fault("redis")
    /\ QueueFailure(p)
    /\ EnvUnchanged /\ HistUnchanged
    /\ UNCHANGED <<pending, settles, stored>>

\* Mutant: the receipt is bound to the job that was replaced.
MarkQueuedOnReplaced(p) ==
    /\ pc[p] = "markQueued"
    /\ safeUpdate(p, markQueued(Row(p), mem[p].replaced))
    /\ IF mem[p].ids = {mem[p].e} THEN Done(p) ELSE Goto(p, "rebind")
    /\ QueueUnchanged /\ EnvUnchanged /\ HistUnchanged
    /\ UNCHANGED <<stored, faults>>

\* markQueuedReceipt: this receipt first ...
MarkQueued(p) ==
    /\ pc[p] = "markQueued"
    /\ safeUpdate(p, markQueued(Row(p), mem[p].e))
    /\ IF mem[p].ids = {mem[p].e} THEN Done(p) ELSE Goto(p, "rebind")
    /\ QueueUnchanged /\ EnvUnchanged /\ HistUnchanged
    /\ UNCHANGED <<stored, faults>>

\* ... then, best effort, the older receipts the job carries.  A null
\* replacedQueueJobId matches no row, an undefined one matches every row.
Rebindable(p, x) ==
    /\ x \in mem[p].ids \ {mem[p].e}
    /\ receipt[x].bound
    /\ receipt[x].status \in {"PROCESSING", "QUEUED"}
    /\ receipt[x].payload
    /\ \/ mem[p].replaced = AnyJob
       \/ mem[p].replaced # Null /\ receipt[x].job = mem[p].replaced

RebindQueuedReceipts(p) ==
    LET j     == mem[p].e
        moved == {x \in Events : Rebindable(p, x)}
    IN
    /\ pc[p] = "rebind"
    /\ receipt' = [x \in Events |-> IF x \in moved THEN markQueued(receipt[x], j)
                                                   ELSE receipt[x]]
    /\ adopted' = adopted \cup
          (IF job[j].state \in {"active", "completed"} THEN moved \ job[j].turn ELSE {})
    /\ Done(p)
    /\ QueueUnchanged /\ EnvUnchanged
    /\ UNCHANGED <<stored, faults, served>>

RebindFails(p) ==
    /\ pc[p] = "rebind"
    /\ Fault("database")
    /\ Done(p)
    /\ QueueUnchanged /\ EnvUnchanged /\ HistUnchanged
    /\ UNCHANGED <<receipt, stored>>

\* STOP: the pending burst job is removed, strictly.
CancelPendingDispatch(p) ==
    /\ pc[p] = "cancel"
    /\ job' = removeQueuedJob(job, pending)
    /\ pending' = Null
    /\ served' = served \cup {mem[p].e}
    /\ Goto(p, "settle")
    /\ EnvUnchanged
    /\ UNCHANGED <<receipt, settles, stored, faults, adopted>>

\* Everything the event asked for is done.
MarkDone(p) ==
    /\ pc[p] = "settle"
    /\ safeUpdate(p, IF Kind[mem[p].e] \in {"echo", "other"}
                     THEN markSkipped(Row(p)) ELSE markProcessed(Row(p)))
    /\ Done(p)
    /\ QueueUnchanged /\ EnvUnchanged /\ HistUnchanged
    /\ UNCHANGED <<stored, faults>>

-----------------------------------------------------------------------------
(* The reconciler: claimDueReceipts and WebhookReceiptReconcilerJob.       *)

\* Mutant: a claim is never considered stale.
DueUnlessClaimed(r) == r.due /\ r.status \in Recoverable \cup {"RECEIVED"}

Due(r) == r.due /\ r.status \in Open

\* The due rows are read first and claimed afterwards.
FindDue(p, e) ==
    /\ pc[p] = "idle"
    /\ Due(receipt[e])
    /\ pc' = [pc EXCEPT ![p] = "claimDue"]
    /\ mem' = [mem EXCEPT ![p] = SnapshotOf(e, receipt[e])]
    /\ QueueUnchanged /\ EnvUnchanged /\ HistUnchanged
    /\ UNCHANGED <<receipt, stored, faults>>

\* A QUEUED receipt older than a week is given up; any other is claimed if
\* nobody changed it since, and given up if it has no replay body.
ClaimDue(p) ==
    LET e == mem[p].e IN
    /\ pc[p] = "claimDue"
    /\ \/ /\ mem[p].status = "QUEUED" /\ receipt[e].old
          /\ safeUpdate(p, deadLetter(Row(p)))
          /\ Done(p)
       \/ /\ ~(mem[p].status = "QUEUED" /\ receipt[e].old)
          /\ ~Fenced(p)
          /\ Done(p)
          /\ UNCHANGED receipt
       \/ /\ ~(mem[p].status = "QUEUED" /\ receipt[e].old)
          /\ Fenced(p) /\ ~receipt[e].payload
          /\ receipt' = [receipt EXCEPT ![e] = deadLetter(@)]
          /\ Done(p)
       \/ /\ ~(mem[p].status = "QUEUED" /\ receipt[e].old)
          /\ Fenced(p) /\ receipt[e].payload
          /\ Claimed(p, IF mem[p].status = "QUEUED" THEN "inspect" ELSE "replay",
                     mem[p].job)
    /\ QueueUnchanged /\ EnvUnchanged /\ HistUnchanged
    /\ UNCHANGED <<stored, faults>>

\* Mutant: a job that is gone counts as completed.
InspectMissingAsCompleted(p) ==
    LET j     == mem[p].job
        state == IF j = Null THEN "none" ELSE job[j].state
    IN
    /\ pc[p] = "inspect"
    /\ Goto(p, IF state \in Live THEN "defer" ELSE "confirm")
    /\ QueueUnchanged /\ EnvUnchanged /\ HistUnchanged
    /\ UNCHANGED <<receipt, stored, faults>>

\* inspectQueuedJob looks up the job id the instance was read with.
InspectQueuedJob(p) ==
    LET j     == mem[p].job
        state == IF j = Null THEN "none" ELSE job[j].state
    IN
    /\ pc[p] = "inspect"
    /\ Goto(p, CASE state \in Live      -> "defer"
                 [] state = "completed" -> "confirm"
                 [] OTHER               -> "replay")
    /\ QueueUnchanged /\ EnvUnchanged /\ HistUnchanged
    /\ UNCHANGED <<receipt, stored, faults>>

InspectUnavailable(p) ==
    /\ pc[p] = "inspect"
    /\ Fault("redis")
    /\ Goto(p, "defer")
    /\ QueueUnchanged /\ EnvUnchanged /\ HistUnchanged
    /\ UNCHANGED <<receipt, stored>>

DeferQueued(p) ==
    /\ pc[p] = "defer"
    /\ safeUpdate(p, deferQueued(Row(p)))
    /\ Done(p)
    /\ QueueUnchanged /\ EnvUnchanged /\ HistUnchanged
    /\ UNCHANGED <<stored, faults>>

\* The completed job settles the receipt, if it still is this receipt's job.
ConfirmCompleted(p) ==
    /\ pc[p] = "confirm"
    /\ IF Row(p).job = mem[p].job
       THEN safeUpdate(p, markProcessed(Row(p))) ELSE UNCHANGED receipt
    /\ Done(p)
    /\ QueueUnchanged /\ EnvUnchanged /\ HistUnchanged
    /\ UNCHANGED <<stored, faults>>

\* The replay goes through the same ingestion as a first delivery.
Replay(p) ==
    /\ pc[p] = "replay"
    /\ connected
    /\ pc' = [pc EXCEPT ![p] = "ingest"]
    /\ mem' = [mem EXCEPT ![p].job = Null]
    /\ QueueUnchanged /\ EnvUnchanged /\ HistUnchanged
    /\ UNCHANGED <<receipt, stored, faults>>

\* Not connected, or the resolution throws: the identity ladder advances.
ReplayUnresolved(p) ==
    /\ pc[p] = "replay"
    /\ \/ ~connected /\ UNCHANGED faults
       \/ connected /\ Fault("database")
    /\ IdentityNotResolved(p, 1)
    /\ QueueUnchanged /\ EnvUnchanged /\ HistUnchanged
    /\ UNCHANGED stored

\* purgeExpiredReceipts, at the end of a run.
PurgeExpired(p) ==
    /\ pc[p] = "idle"
    /\ \E e \in Events : receipt[e].old /\ receipt[e].status \in Terminal
    /\ receipt' = [e \in Events |->
                      IF receipt[e].old /\ receipt[e].status \in Terminal
                      THEN NoReceipt ELSE receipt[e]]
    /\ QueueUnchanged /\ EnvUnchanged /\ HistUnchanged
    /\ UNCHANGED <<pc, mem, stored, faults>>

-----------------------------------------------------------------------------
(* The message worker. *)

\* A run clears the pending key, whichever job it names, and loads every
\* stored message of the conversation.
StartJob(j) ==
    /\ job[j].state = "waiting"
    /\ job[j].attempts < MaxAttempts
    /\ job' = [job EXCEPT ![j].state = "active",
                          ![j].held = job[j].ids,
                          ![j].turn = {e \in stored : Kind[e] = "message"},
                          ![j].attempts = @ + 1]
    /\ pending' = Null
    /\ EnvUnchanged /\ HistUnchanged
    /\ UNCHANGED <<receipt, pc, mem, settles, stored, faults>>

\* Mutant: the listener settles the receipts the job carries by now.
CompleteJobWithLateReceipts(j) ==
    /\ job[j].state = "active"
    /\ job' = [job EXCEPT ![j].state = "completed"]
    /\ served' = served \cup job[j].turn
    /\ settles' = settles \cup {<<j, e, "completed">> : e \in job[j].ids}
    /\ EnvUnchanged
    /\ UNCHANGED <<receipt, pc, mem, pending, stored, faults, adopted>>

CompleteJob(j) ==
    /\ job[j].state = "active"
    /\ job' = [job EXCEPT ![j].state = "completed"]
    /\ served' = served \cup job[j].turn
    /\ settles' = settles \cup {<<j, e, "completed">> : e \in job[j].held}
    /\ EnvUnchanged
    /\ UNCHANGED <<receipt, pc, mem, pending, stored, faults, adopted>>

\* An attempt fails: the job is retried, or has used its attempts and its
\* receipts are to be dead-lettered.
FailJob(j) ==
    /\ job[j].state = "active"
    /\ Fault("job")
    /\ \/ /\ job[j].attempts < MaxAttempts
          /\ job' = [job EXCEPT ![j].state = "waiting"]
          /\ UNCHANGED settles
       \/ /\ job[j].attempts = MaxAttempts
          /\ job' = [job EXCEPT ![j].state = "failed"]
          /\ settles' = settles \cup {<<j, e, "failed">> : e \in job[j].held}
    /\ EnvUnchanged /\ HistUnchanged
    /\ UNCHANGED <<receipt, pc, mem, pending, stored>>

\* UnrecoverableError before the last attempt: BullMQ fails the job, and the
\* failed listener, seeing attempts left, settles nothing.
FailJobUnrecoverably(j) ==
    /\ job[j].state = "active"
    /\ job[j].attempts < MaxAttempts
    /\ Fault("job")
    /\ job' = [job EXCEPT ![j].state = "failed"]
    /\ EnvUnchanged /\ HistUnchanged
    /\ UNCHANGED <<receipt, pc, mem, pending, settles, stored>>

\* A rate-limited send moves the job back to the delayed set; the attempt does
\* not count.
DelayJob(j) ==
    /\ job[j].state = "active"
    /\ Fault("job")
    /\ job' = [job EXCEPT ![j].state = "waiting", ![j].attempts = @ - 1]
    /\ EnvUnchanged /\ HistUnchanged
    /\ UNCHANGED <<receipt, pc, mem, pending, settles, stored>>

\* settleInboundReceipts: only receipts still QUEUED on this very job.
SettleReceipt(s) ==
    LET j == s[1]
        e == s[2]
    IN
    /\ s \in settles
    /\ settles' = settles \ {s}
    /\ receipt' =
         IF receipt[e].status = "QUEUED" /\ receipt[e].job = j
         THEN [receipt EXCEPT ![e] = IF s[3] = "completed"
                                     THEN markProcessed(@) ELSE deadLetter(@)]
         ELSE receipt
    /\ EnvUnchanged /\ HistUnchanged
    /\ UNCHANGED <<pc, mem, job, pending, stored, faults>>

-----------------------------------------------------------------------------
(* Time, crashes and losses. *)

\* next_retry_at passes, a claim goes stale, a RECEIVED row is orphaned.
Age(e) ==
    /\ receipt[e].status \in Open
    /\ ~receipt[e].due
    /\ receipt' = [receipt EXCEPT ![e].due = TRUE]
    /\ QueueUnchanged /\ EnvUnchanged /\ HistUnchanged
    /\ UNCHANGED <<pc, mem, stored, faults>>

\* A week passes (the queued age limit and the terminal retention).
Expire(e) ==
    /\ receipt[e].status # "ABSENT"
    /\ ~receipt[e].old
    /\ Fault("week")
    /\ receipt' = [receipt EXCEPT ![e].old = TRUE]
    /\ QueueUnchanged /\ EnvUnchanged /\ HistUnchanged
    /\ UNCHANGED <<pc, mem, stored>>

\* The web process dies: every live delivery it was handling is gone.
CrashServer ==
    /\ Fault("crash")
    /\ \E p \in Handlers : pc[p] # "idle"
    /\ pc' = [p \in Procs |-> IF p \in Handlers THEN "idle" ELSE pc[p]]
    /\ mem' = [p \in Procs |-> IF p \in Handlers THEN NoSnapshot ELSE mem[p]]
    /\ QueueUnchanged /\ EnvUnchanged /\ HistUnchanged
    /\ UNCHANGED <<receipt, stored>>

\* The worker process dies, with the reconciler it runs: active jobs are
\* stalled and run again, unfinished settlements are forgotten.
CrashWorker ==
    /\ Fault("crash")
    /\ \/ \E p \in Reconcilers : pc[p] # "idle"
       \/ \E j \in Events : job[j].state = "active"
       \/ settles # {}
    /\ pc' = [p \in Procs |-> IF p \in Reconcilers THEN "idle" ELSE pc[p]]
    /\ mem' = [p \in Procs |-> IF p \in Reconcilers THEN NoSnapshot ELSE mem[p]]
    /\ job' = [j \in Events |->
                  IF job[j].state = "active"
                  THEN [job[j] EXCEPT !.state = "waiting", !.attempts = @ - 1]
                  ELSE job[j]]
    /\ settles' = {}
    /\ EnvUnchanged /\ HistUnchanged
    /\ UNCHANGED <<receipt, pending, stored>>

\* removeOnComplete / removeOnFail, or the pending key's TTL.
Evict ==
    /\ Fault("redis")
    /\ \/ \E j \in Events : /\ job[j].state \in {"completed", "failed"}
                            /\ job' = [job EXCEPT ![j] = NoJob]
                            /\ UNCHANGED pending
       \/ pending # Null /\ pending' = Null /\ UNCHANGED job
    /\ EnvUnchanged /\ HistUnchanged
    /\ UNCHANGED <<receipt, pc, mem, settles, stored>>

\* Redis loses everything it holds.
LoseQueue ==
    /\ Fault("redis")
    /\ \E j \in Events : job[j].state # "none"
    /\ job' = [j \in Events |-> NoJob]
    /\ pending' = Null
    /\ EnvUnchanged /\ HistUnchanged
    /\ UNCHANGED <<receipt, pc, mem, settles, stored>>

\* The merchant connects the Page, or loses the connection.
Connect ==
    /\ ~connected /\ connected' = TRUE
    /\ QueueUnchanged /\ HistUnchanged
    /\ UNCHANGED <<receipt, pc, mem, stored, deliveries, faults>>

Disconnect ==
    /\ connected /\ connected' = FALSE
    /\ Fault("channel")
    /\ QueueUnchanged /\ HistUnchanged
    /\ UNCHANGED <<receipt, pc, mem, stored, deliveries>>

-----------------------------------------------------------------------------
LiveStep(p) ==
    \/ ResolutionFails(p) \/ NotConnected(p) \/ Connected(p) \/ ResolveBound(p)
    \/ ClaimProcessing(p) \/ ClaimFails(p)

IngestStep(p) ==
    \/ ApplySideEvent(p) \/ SideEventFails(p) \/ StoreMessage(p)
    \/ StoreFails(p) \/ ReadPending(p) \/ PendingUnreadable(p) \/ Enqueue(p)
    \/ EnqueueDegraded(p) \/ DispatchFails(p)
    \/ MarkQueued(p) \/ RebindQueuedReceipts(p) \/ RebindFails(p)
    \/ CancelPendingDispatch(p) \/ MarkDone(p)

ReconcileStep(p) ==
    \/ ClaimDue(p) \/ InspectQueuedJob(p) \/ InspectUnavailable(p)
    \/ DeferQueued(p) \/ ConfirmCompleted(p) \/ Replay(p) \/ ReplayUnresolved(p)

WorkerStep(j) ==
    StartJob(j) \/ CompleteJob(j) \/ FailJob(j) \/ FailJobUnrecoverably(j) \/ DelayJob(j)

Next ==
    \/ \E p \in Handlers : LiveStep(p) \/ \E e \in Events : Record(p, e)
    \/ \E p \in Procs : IngestStep(p)
    \/ \E p \in Reconcilers : ReconcileStep(p) \/ PurgeExpired(p)
    \/ \E p \in Reconcilers, e \in Events : FindDue(p, e)
    \/ \E j \in Events : WorkerStep(j)
    \/ \E s \in Events \X Events \X {"completed", "failed"} : SettleReceipt(s)
    \/ \E e \in Events : Age(e) \/ Expire(e)
    \/ CrashServer \/ CrashWorker \/ Evict \/ LoseQueue
    \/ Connect \/ Disconnect

Spec == Init /\ [][Next]_vars

(* The processes keep going.  The reconciler takes due rows oldest first, so
   a row that is due again and again is picked again and again (strong
   fairness).  Nothing says that the Page is ever connected, that Redis keeps
   its data, or that a delivery is repeated. *)
Fairness ==
    /\ \A p \in Procs : WF_vars(LiveStep(p) \/ IngestStep(p) \/ ReconcileStep(p))
    /\ \A e \in Events : SF_vars(\E p \in Reconcilers : FindDue(p, e))
    /\ \A j \in Events : WF_vars(WorkerStep(j))
    /\ \A s \in Events \X Events \X {"completed", "failed"} : WF_vars(SettleReceipt(s))
    /\ \A e \in Events : WF_vars(Age(e))

FairSpec == Spec /\ Fairness

-----------------------------------------------------------------------------
(* Safety. *)

\* A replayable event that is not settled keeps the body it would be replayed
\* from, and so does one that was given up (replay by hand).
PayloadRetained ==
    \A e \in Events :
        Replayable(e) /\ receipt[e].status \in Open \cup {"DEAD_LETTERED"}
            => receipt[e].payload

\* A processing token is on a row exactly while the row is being processed: no
\* status is left with a token that a live delivery could never claim past.
OwnedWhileProcessing ==
    \A e \in Events :
        receipt[e].status \in Open =>
            (receipt[e].owner # Null <=> receipt[e].status = "PROCESSING")

\* A receipt is PROCESSED only after its effect: its message was loaded by a
\* run that completed, its STOP or opt-in was carried out.  The exception is a
\* receipt that was rebound to a job which had started without it.
SettledWasServed ==
    \A e \in Events : receipt[e].status = "PROCESSED" => e \in served \cup adopted

\* A settled receipt is never reopened; it can only be purged.
SettledForGood ==
    [][\A e \in Events :
          receipt[e].status \in Terminal =>
              receipt'[e].status \in {receipt[e].status, "ABSENT"}]_vars

\* A process whose claim was taken over, rebound or released by somebody else
\* goes on ingesting, but no longer changes the row: whatever it marks is lost.
FencedOut ==
    [][\A p \in Procs :
          (pc[p] \in OwnedSteps /\ pc'[p] # pc[p] /\ Row(p).owner # p)
              => receipt'[mem[p].e] = Row(p)]_vars

-----------------------------------------------------------------------------
(* Why a settled receipt was served: the parts of an inductive invariant.  *)

Started        == {"active", "completed"}
StoredMessages == {e \in stored : Kind[e] = "message"}

\* What a process knows at each step: it holds an open row, its own claim once
\* it is past it, and a stored message once it dispatches one.
Knows(p) ==
    /\ pc[p] = "resolve" => mem[p].status \in Open \cup Terminal
    /\ pc[p] \notin {"idle", "resolve"} => mem[p].status \in Open
    /\ pc[p] \in OwnedSteps =>
          mem[p].status = "PROCESSING" /\ mem[p].owner \in {p, Expired}
    /\ pc[p] \in {"dispatch", "enqueue", "markQueued", "rebind"} =>
          mem[p].e \in StoredMessages
    /\ pc[p] = "settle" => mem[p].e \in served
    /\ pc[p] = "confirm" => mem[p].job # Null
    /\ mem[p].ids \subseteq StoredMessages

ProcessesKnow == \A p \in Procs : Knows(p)

\* A job exists for a stored message and carries stored messages; a run that
\* started has loaded its own message and every receipt it will settle.
JobsCarryStored ==
    \A j \in Events :
        /\ job[j].state # "none" => j \in StoredMessages
        /\ job[j].ids \subseteq StoredMessages
        /\ job[j].state \in Started => j \in job[j].turn /\ job[j].held \subseteq job[j].turn
        /\ job[j].state = "completed" => job[j].turn \subseteq served

\* A receipt that names a started job is one the run loaded, or was adopted.
ReceiptsFollowJobs ==
    \A e \in Events :
        receipt[e].job # Null =>
            /\ e \in StoredMessages
            /\ job[receipt[e].job].state \in Started =>
                  e \in job[receipt[e].job].turn \cup adopted

\* What is about to be settled by a listener or by the reconciler was served.
AboutToSettle ==
    /\ \A j, e \in Events : <<j, e, "completed">> \in settles => e \in served
    /\ \A p \in Procs :
          (/\ pc[p] = "confirm"
           /\ Row(p).owner = p
           /\ Row(p).job = mem[p].job) => mem[p].e \in served \cup adopted

\* Everything SettledWasServed rests on.
ServedAccounting ==
    ProcessesKnow /\ JobsCarryStored /\ ReceiptsFollowJobs /\ AboutToSettle

-----------------------------------------------------------------------------
(* The abstract promise. *)

Class(r) == IF r.status = "ABSENT" THEN "new"
            ELSE IF r.status \in Open THEN "open"
            ELSE IF r.status = "DEAD_LETTERED" THEN "dead" ELSE "done"

inbox == [e \in Events |-> Class(receipt[e])]

Inbox == INSTANCE DurableInbox WITH
    excused <- adopted,
    Ignorable <- {e \in Events : Kind[e] = "other"}

\* The receipts implement the durable inbox: each step is one of its steps.
InboxImplemented == Inbox!Spec

(* Liveness. *)

\* Every accepted event is settled, even if the Page is never connected.
EventuallySettled ==
    \A e \in Events : receipt[e].status \in Open ~> receipt[e].status \notin Open

=============================================================================
